---- MODULE Spec2Model ----
(***************************************************************************)
(* Model of the morph -> validate -> yield pipeline of                     *)
(* src/3-pipeline_morph_validate_sam.py and of the consolidation of its    *)
(* logs in src/4-consolida_sam_morph.py.                                   *)
(*                                                                         *)
(* Numbers.  The program computes in IEEE doubles.  A value is modelled as *)
(* a pair <<n, d>>: d > 0 with gcd(n, d) = 1 is the rational n/d,          *)
(* <<1, 0>> is +inf, <<-1, 0>> is -inf and <<0, 0>> is NaN.  Arithmetic is *)
(* exact on the rationals and follows IEEE 754 on the three special        *)
(* values (x/0, 0*inf, inf-inf), which is what numpy/pandas do without     *)
(* raising.  Rounding and signed zeros are not modelled.                   *)
(***************************************************************************)
EXTENDS Integers, Sequences, FiniteSets, TLC

VARIABLES
    base,      \* the reference profile, as read_era5_base(CSV_ERA5_BASE) returns it
    hist,      \* historical sources: hist[v] is the 12-month climatology of v, or NoData
    nex,       \* projection archive of the current target: nex[v] is a 12-month series, or NoData
    si,        \* index into SCENARIOS of the target being processed (outer loop of main)
    yi,        \* index into YEARS of the target being processed (inner loop of main)
    pc,        \* position inside main() / morph_one_year()
    call,      \* what the last call of morph_one_year did (its locals and its outcome)
    csvs,      \* morphed CSV files on disk: path -> rows
    results,   \* the list `results` of main()
    logs,      \* log files in LOG_DIR: file name -> content
    table,     \* OUT_RESULTS_CSV: whether this run wrote it, and its rows
    loads,     \* loads[v]: how often this run loaded the climatology of v from the archive
    planilha,  \* the spreadsheet PLANILHA_ERA5: its sheets, or NoData when the file is absent
    consolidated, \* OUT_PATH of the consolidation script: its rows and how often it was written
    arg,       \* the input of a function or script studied on its own
    ret        \* what that function or script returned, raised or wrote

vars == <<base, hist, nex, si, yi, pc, call, csvs, results, logs, table,
          loads, planilha, consolidated, arg, ret>>

\* state of the other scripts and of the functions studied on their own
apart == <<planilha, consolidated, arg, ret>>

\* Python's None: a missing projection, a climatology that could not be loaded
NoData == [kind |-> "None"]

\* OUT_RESULTS_CSV before main() writes it
NoTable == [written |-> FALSE, rows |-> << >>]

\* OUT_PATH before the consolidation script has run
NoConsolidated == [runs |-> 0, rows |-> << >>]

\* a pandas Series of monthly values
Series(v) == [kind |-> "Series", v |-> v]

----------------------------------------------------------------------------
(* Extended rational arithmetic (the doubles of numpy/pandas).             *)

Abs(x) == IF x < 0 THEN -x ELSE x
Sign(x) == IF x < 0 THEN -1 ELSE IF x > 0 THEN 1 ELSE 0

RECURSIVE GCD(_, _)
GCD(a, b) == IF b = 0 THEN a ELSE GCD(b, a % b)

\* the value n/d in normal form
RNorm(n, d) ==
    IF d = 0 THEN <<Sign(n), 0>>
    ELSE LET s == IF d < 0 THEN -1 ELSE 1
             g == GCD(Abs(n), Abs(d))
         IN  <<(s * n) \div g, (s * d) \div g>>

R(i) == <<i, 1>>
NaN == <<0, 0>>
PosInf == <<1, 0>>
NegInf == <<-1, 0>>

IsNaN(a) == a = NaN
IsInf(a) == a[2] = 0 /\ a[1] # 0
IsFinite(a) == a[2] > 0

\* IEEE comparisons: every comparison with NaN is false
RLt(a, b) == ~IsNaN(a) /\ ~IsNaN(b) /\ a[1] * b[2] < b[1] * a[2]
RLe(a, b) == ~IsNaN(a) /\ ~IsNaN(b) /\ (a = b \/ a[1] * b[2] < b[1] * a[2])
REq(a, b) == ~IsNaN(a) /\ ~IsNaN(b) /\ a = b

RNeg(a) == <<-a[1], a[2]>>

RAdd(a, b) ==
    IF IsNaN(a) \/ IsNaN(b) THEN NaN
    ELSE IF IsInf(a) /\ IsInf(b) THEN (IF a = b THEN a ELSE NaN)
    ELSE IF IsInf(a) THEN a
    ELSE IF IsInf(b) THEN b
    ELSE LET g == GCD(a[2], b[2])
         IN  RNorm(a[1] * (b[2] \div g) + b[1] * (a[2] \div g), (a[2] \div g) * b[2])

RSub(a, b) == RAdd(a, RNeg(b))

RMul(a, b) ==
    IF IsNaN(a) \/ IsNaN(b) THEN NaN
    ELSE IF IsInf(a) \/ IsInf(b) THEN <<Sign(a[1]) * Sign(b[1]), 0>>
    ELSE LET g1 == GCD(Abs(a[1]), b[2])
             g2 == GCD(Abs(b[1]), a[2])
         IN  RNorm((a[1] \div g1) * (b[1] \div g2), (a[2] \div g2) * (b[2] \div g1))

\* a / b as numpy divides: x/0 is +-inf, 0/0 is NaN, x/inf is 0, inf/inf is NaN
RDiv(a, b) ==
    IF IsNaN(a) \/ IsNaN(b) THEN NaN
    ELSE IF IsInf(b) THEN (IF IsInf(a) THEN NaN ELSE R(0))
    ELSE IF b[1] = 0 THEN <<Sign(a[1]), 0>>
    ELSE IF IsInf(a) THEN <<Sign(a[1]) * Sign(b[1]), 0>>
    ELSE RMul(a, RNorm(b[2], b[1]))

\* Series.clip(lower=lo): NaN stays NaN
ClipLower(x, lo) == IF IsNaN(x) THEN x ELSE IF RLt(x, lo) THEN lo ELSE x

\* Series.clip(lo, hi): NaN stays NaN
Clip(x, lo, hi) ==
    IF IsNaN(x) THEN x ELSE IF RLt(x, lo) THEN lo ELSE IF RLt(hi, x) THEN hi ELSE x

\* Series.fillna(v)
FillNa(x, v) == IF IsNaN(x) THEN v ELSE x

----------------------------------------------------------------------------
(* Configuration of the pipeline.                                          *)

MODEL == "ACCESS-CM2"
SCENARIOS == <<"ssp245", "ssp585">>
CutoffYear == 2015

\* the run covers YearsBefore years before the cutoff and YearsAfter from it on
\* (the program's YEARS is range(1994, 2055))
YearsBefore == 1
YearsAfter == 1
YEARS == [i \in 1..(YearsBefore + YearsAfter) |-> CutoffYear - YearsBefore + i - 1]

VARS == <<"rsds", "tas", "sfcWind", "hurs">>
VarSet == {VARS[i] : i \in 1..Len(VARS)}

NumMonths == 12
Months == 1..NumMonths

\* eps = 1e-6 of morph_one_year is 1/EpsInv
EpsInv == 1000000
Eps == RNorm(1, EpsInv)

RelHumMax == 100

\* The hourly year is reduced: every month keeps one day (day 1) of HoursPerDay
\* hourly rows, so NumRows stands for the 8760 rows of a year and LeapRows for the
\* 8784 rows of a year with a Feb-29
HoursPerDay == 1
NumRows == NumMonths * HoursPerDay
LeapRows == NumRows + HoursPerDay

\* the year of the reference CSV: the last year of the run
RefYear == YEARS[Len(YEARS)]

----------------------------------------------------------------------------
(* Results of calls that may raise.                                        *)

Ok(v) == [ok |-> TRUE, val |-> v, err |-> << >>]
Raise(msg) == [ok |-> FALSE, val |-> NoData, err |-> msg]

----------------------------------------------------------------------------
(* morph_one_year and the functions it calls.                              *)

\* _as_monthly_series without the check of the length
AsMonthlySeriesAnyLength(x, name, allow_none, fill) ==
    IF x = NoData
    THEN IF ~allow_none THEN Raise(<<"ausente (None)", name>>)
         ELSE IF fill = NoData THEN Raise(<<"float() argument must be a real number">>)
         ELSE Ok([m \in Months |-> fill])
    ELSE IF x.kind = "float" THEN Ok([m \in Months |-> x.v])
    ELSE Ok(x.v)

\* _as_monthly_series(x, name, allow_none, fill): float(fill) raises TypeError
\* for the default fill=None; a scalar is repeated; a sequence of 12 values is
\* indexed 1..12
AsMonthlySeries(x, name, allow_none, fill) ==
    IF x = NoData
    THEN IF ~allow_none THEN Raise(<<"ausente (None)", name>>)
         ELSE IF fill = NoData THEN Raise(<<"float() argument must be a real number">>)
         ELSE Ok([m \in Months |-> fill])
    ELSE IF x.kind = "float" THEN Ok([m \in Months |-> x.v])
    ELSE IF Len(x.v) # NumMonths THEN Raise(<<"deveria ter 12 valores mensais", name>>)
    ELSE Ok([m \in Months |-> x.v[m]])

\* dict.get(key, default)
Get(d, key, default) == IF key \in DOMAIN d THEN d[key] ELSE default

\* _load_rsds_tas_from_planilha(path): the loop over the sheets evaluates
\* any(c.startswith("skt")) for the first sheet, where no name c is bound
load_rsds_tas_from_planilha(p) ==
    IF p.sheets = << >>
    THEN Raise(<<"Planilha nao possui colunas esperadas (Data/SSR/SKT).">>)
    ELSE Raise(<<"name 'c' is not defined">>)

\* the climatology of rsds or tas in load_hist_clims(): the archive, else the
\* spreadsheet when the file exists; an exception of the spreadsheet loader is
\* raised inside the except block and leaves load_hist_clims()
ClimOrPlanilha(v) ==
    IF hist[v] # NoData THEN Ok(hist[v])
    ELSE IF planilha = NoData THEN Raise(<<"NEX historical nao encontrado", v>>)
    ELSE LET plan == load_rsds_tas_from_planilha(planilha)
         IN  IF ~plan.ok THEN Raise(plan.err)
             ELSE IF v \in DOMAIN plan.val /\ Len(plan.val[v].v) = NumMonths
                  THEN Ok(plan.val[v])
                  ELSE Raise(<<"NEX historical nao encontrado", v>>)

\* load_hist_clims(): rsds, tas and sfcWind are required (the exception of their
\* last source propagates); a missing hurs climatology leaves the key out
load_hist_clims ==
    LET rsds == ClimOrPlanilha("rsds")
        tas == ClimOrPlanilha("tas")
    IN  IF ~rsds.ok THEN Raise(rsds.err)
        ELSE IF ~tas.ok THEN Raise(tas.err)
        ELSE IF hist["sfcWind"] = NoData
             THEN Raise(<<"NEX historical nao encontrado", "sfcWind">>)
        ELSE Ok([v \in {w \in VarSet : w # "hurs" \/ hist[w] # NoData} |->
                    CASE v = "rsds" -> rsds.val [] v = "tas" -> tas.val [] OTHER -> hist[v]])

\* the loads of one call of load_hist_clims(): each variable is read from its
\* archive, in the order rsds, tas, sfcWind, hurs, until a required one fails
LoadsAfterCall ==
    LET reached(v) ==
            CASE v = "rsds" -> TRUE
              [] v = "tas" -> ClimOrPlanilha("rsds").ok
              [] v = "sfcWind" -> ClimOrPlanilha("rsds").ok /\ ClimOrPlanilha("tas").ok
              [] OTHER -> load_hist_clims.ok
    IN  [v \in VarSet |-> IF reached(v) /\ hist[v] # NoData THEN loads[v] + 1 ELSE loads[v]]

\* the scenario as the target names it, whatever the year
SspNameNominal(ssp, year) == ssp

\* the scenario whose directory load_future_monthly reads
SspName(ssp, year) == IF year >= CutoffYear THEN ssp ELSE "historical"

\* load_future_monthly(ssp, year): the first missing variable other than hurs raises
load_future_monthly(ssp, year) ==
    LET ssp_name == SspName(ssp, year)
        missing == {i \in 1..Len(VARS) : VARS[i] # "hurs" /\ nex[VARS[i]] = NoData}
    IN  IF missing # {}
        THEN LET i == CHOOSE j \in missing : \A l \in missing : j <= l
             IN  Raise(<<"NEX nao encontrado", ssp_name, ToString(year), VARS[i]>>)
        ELSE Ok([v \in VarSet |-> nex[v]])

\* the subdirectory and file-name label of the morphed CSV
OutSubdir(ssp, year) == IF year < CutoffYear THEN "historical" ELSE ssp

\* path of the morphed CSV: OUT_SAM_CSV_DIR/<out_subdir>/SAM_<MODEL>_<out_subdir>_<year>_morph.csv
OutPath(out_subdir, year) ==
    [dir |-> out_subdir, model |-> MODEL, label |-> out_subdir, year |-> year]

\* the direct fraction of one row, from the row's DNI and the GHI handed in
FracDni(dni, ghi) == FillNa(Clip(RDiv(dni, RAdd(ghi, Eps)), R(0), R(1)), R(0))

\* MorphRow without the clip(lower=0) on GHI
MorphRowNoClip(r, k_rsds, d_tas, k_wspd, d_hurs, year) ==
    LET m == r.month
        ghi == RMul(r.GHI, k_rsds[m])
        frac_dni == FracDni(r.DNI, ghi)
        frac_dhi == Clip(RSub(R(1), frac_dni), R(0), R(1))
    IN  [DateTime |-> [year |-> year, month |-> r.DateTime.month,
                       day |-> r.DateTime.day, hour |-> r.DateTime.hour],
         GHI |-> ghi,
         DNI |-> RMul(ghi, frac_dni),
         DHI |-> RMul(ghi, frac_dhi),
         TempC |-> RAdd(r.TempC, d_tas[m]),
         WindSpeed |-> ClipLower(RMul(r.WindSpeed, k_wspd[m]), R(0)),
         RelHum |-> Clip(RAdd(r.RelHum, d_hurs[m]), R(0), R(RelHumMax))]

\* one row of df after the column assignments of morph_one_year
MorphRow(r, k_rsds, d_tas, k_wspd, d_hurs, year) ==
    LET m == r.month
        ghi == ClipLower(RMul(r.GHI, k_rsds[m]), R(0))
        frac_dni == FracDni(r.DNI, ghi)
        frac_dhi == Clip(RSub(R(1), frac_dni), R(0), R(1))
    IN  [DateTime |-> [year |-> year, month |-> r.DateTime.month,
                       day |-> r.DateTime.day, hour |-> r.DateTime.hour],
         GHI |-> ghi,
         DNI |-> RMul(ghi, frac_dni),
         DHI |-> RMul(ghi, frac_dhi),
         TempC |-> RAdd(r.TempC, d_tas[m]),
         WindSpeed |-> ClipLower(RMul(r.WindSpeed, k_wspd[m]), R(0)),
         RelHum |-> Clip(RAdd(r.RelHum, d_hurs[m]), R(0), R(RelHumMax))]

\* the humidity series of morph_one_year: <<fut_hurs, clim_hurs>>
HursSeries(clim, fut) ==
    IF fut["hurs"] = NoData
    THEN LET fut_hurs == AsMonthlySeries(NoData, "fut.hurs", TRUE, R(0))
             zero == Series([m \in Months |-> RMul(fut_hurs.val[m], R(0))])
         IN  <<fut_hurs, AsMonthlySeries(Get(clim, "hurs", zero), "clim.hurs", TRUE, R(0))>>
    ELSE <<AsMonthlySeries(fut["hurs"], "fut.hurs", FALSE, NoData),
           AsMonthlySeries(Get(clim, "hurs", NoData), "clim.hurs", FALSE, NoData)>>

\* what a call of morph_one_year that raised leaves behind
Raised(ssp, year, ssp_name, e) ==
    [raised |-> TRUE, err |-> e, ssp |-> ssp, year |-> year,
     ssp_name |-> ssp_name, out_path |-> NoData, rows |-> << >>,
     k_rsds |-> << >>, d_tas |-> << >>, k_wspd |-> << >>, d_hurs |-> << >>]

\* a calendar with no 29th of February
IsLeapDayNever(r) == FALSE

IsLeapDay(r) == r.DateTime.month = 2 /\ r.DateTime.day = 29

IsLeapYear(y) == y % 4 = 0 /\ (y % 100 # 0 \/ y % 400 = 0)

\* pd.to_datetime({"year": year, ...}) raises on a day the year does not have
RestampFails(rows, year) == ~IsLeapYear(year) /\ \E i \in 1..Len(rows) : IsLeapDay(rows[i])

\* morph_one_year(ssp, year): the outcome of the call; rows is the table written
morph_one_year(ssp, year) ==
    LET clim == load_hist_clims
        fut == load_future_monthly(ssp, year)
    IN  IF ~clim.ok THEN Raised(ssp, year, "", clim.err)
        ELSE IF ~fut.ok THEN Raised(ssp, year, SspName(ssp, year), fut.err)
        ELSE
        LET clim_rsds == AsMonthlySeries(Get(clim.val, "rsds", NoData), "clim.rsds", FALSE, NoData)
            clim_tas == AsMonthlySeries(Get(clim.val, "tas", NoData), "clim.tas", FALSE, NoData)
            clim_wspd == AsMonthlySeries(Get(clim.val, "sfcWind", NoData), "clim.sfcWind", FALSE, NoData)
            fut_rsds == AsMonthlySeries(fut.val["rsds"], "fut.rsds", FALSE, NoData)
            fut_tas == AsMonthlySeries(fut.val["tas"], "fut.tas", FALSE, NoData)
            fut_wspd == AsMonthlySeries(fut.val["sfcWind"], "fut.sfcWind", FALSE, NoData)
            hurs == HursSeries(clim.val, fut.val)
            steps == <<clim_rsds, clim_tas, clim_wspd, fut_rsds, fut_tas, fut_wspd,
                       hurs[1], hurs[2]>>
            failed == {i \in 1..Len(steps) : ~steps[i].ok}
        IN  IF failed # {}
            THEN Raised(ssp, year, SspName(ssp, year),
                        steps[CHOOSE i \in failed : \A j \in failed : i <= j].err)
            ELSE
            LET k_rsds == [m \in Months |-> RDiv(fut_rsds.val[m], clim_rsds.val[m])]
                d_tas == [m \in Months |-> RSub(fut_tas.val[m], clim_tas.val[m])]
                k_wspd == [m \in Months |-> RDiv(fut_wspd.val[m], clim_wspd.val[m])]
                d_hurs == [m \in Months |-> RSub(hurs[1].val[m], hurs[2].val[m])]
                out_subdir == OutSubdir(ssp, year)
            IN  IF RestampFails(base, year)
                THEN Raised(ssp, year, SspName(ssp, year),
                            <<"day is out of range for month">>)
                ELSE
                [raised |-> FALSE, err |-> << >>, ssp |-> ssp, year |-> year,
                 ssp_name |-> SspName(ssp, year), out_path |-> OutPath(out_subdir, year),
                 k_rsds |-> k_rsds, d_tas |-> d_tas, k_wspd |-> k_wspd, d_hurs |-> d_hurs,
                 rows |-> [i \in 1..Len(base) |->
                              MorphRow(base[i], k_rsds, d_tas, k_wspd, d_hurs, year)]]

RECURSIVE DropLeapDay(_)
DropLeapDay(rows) ==
    IF rows = << >> THEN << >>
    ELSE IF IsLeapDay(Head(rows)) THEN DropLeapDay(Tail(rows))
    ELSE <<Head(rows)>> \o DropLeapDay(Tail(rows))

Required == {"GHI", "DNI", "DHI", "TempC", "WindSpeed", "RelHum"}
Req == <<"GHI", "DNI", "DHI", "TempC", "WindSpeed", "RelHum">>

\* a cell of a CSV file is a number (the empty cell is NaN) or a text that is
\* not a number; a DateTime cell is a timestamp or a text that is not one
TextCell == <<"n/a">>
IsText(cell) == Len(cell) = 1
NotADate == [kind |-> "str", v |-> <<"n/a">>]

\* pd.to_numeric(cell, errors="coerce")
ToNumeric(cell) == IF IsText(cell) THEN NaN ELSE cell

\* pd.to_datetime(cell, errors="coerce") is NaT
IsNaT(cell) == "year" \notin DOMAIN cell

\* validate_sam_csv(path) on a file [columns, rows]: columns is the header, each
\* row a record of the cells of those columns
validate_file(f) ==
    LET n == Len(f.rows)
        absent == {k \in 1..Len(Req) : Req[k] \notin f.columns}
        first == CHOOSE k \in absent : \A j \in absent : k <= j
        df == IF n = LeapRows THEN DropLeapDay(f.rows) ELSE f.rows
    IN  IF "DateTime" \notin f.columns THEN Raise(<<"CSV sem DateTime.">>)
        ELSE IF \E i \in 1..n : IsNaT(f.rows[i].DateTime)
        THEN Raise(<<"Falha ao converter DateTime",
                     ToString(Cardinality({i \in 1..n : IsNaT(f.rows[i].DateTime)}))>>)
        ELSE IF absent # {} THEN Raise(<<"Falta", Req[first]>>)
        ELSE IF \E i \in 1..n : \E c \in Required : IsNaN(ToNumeric(f.rows[i][c]))
        THEN Raise(<<"NaN apos morph.">>)
        ELSE IF Len(df) # NumRows THEN Raise(<<"linhas (esperado 8760)", ToString(Len(df))>>)
        ELSE Ok(NoData)

\* validate_sam_csv(path) on the rows of a file that morph_one_year wrote, whose
\* header has DateTime and the six required columns
validate_sam_csv(rows) ==
    validate_file([columns |-> {"DateTime"} \cup Required, rows |-> rows])

----------------------------------------------------------------------------
(* Inputs: reference rows, climatologies and projections.                  *)

Rec(g, n, d, t, w, h) ==
    [GHI |-> R(g), DNI |-> R(n), DHI |-> R(d), TempC |-> R(t), WindSpeed |-> R(w), RelHum |-> R(h)]

\* the reference profile whose January rows carry jan and whose other rows carry rest
Profile(jan, rest) ==
    [i \in 1..NumRows |->
        LET m == ((i - 1) \div HoursPerDay) + 1
            v == IF m = 1 THEN jan ELSE rest
        IN  [DateTime |-> [year |-> RefYear, month |-> m, day |-> 1,
                           hour |-> (i - 1) % HoursPerDay],
             GHI |-> v.GHI, DNI |-> v.DNI, DHI |-> v.DHI, TempC |-> v.TempC,
             WindSpeed |-> v.WindSpeed, RelHum |-> v.RelHum, month |-> m]]

\* a monthly series with value jan in January and rest in the other months
Monthly(jan, rest) == Series([m \in Months |-> IF m = 1 THEN R(jan) ELSE R(rest)])

\* <<GHI, DNI, DHI>> of reference rows: a consistent one, DNI above GHI, night,
\* negative DNI, negative GHI
IrrSet == {<<5, 3, 2>>, <<2, 3, 1>>, <<0, 0, 0>>, <<3, -1, 4>>, <<-1, 1, 0>>}
\* <<TempC, WindSpeed, RelHum>> of reference rows
MeteoSet == {<<25, 3, 70>>, <<-5, 0, 100>>, <<30, -1, 110>>}

StdRecord == Rec(5, 3, 2, 25, 3, 70)
RefRecords == {Rec(a[1], a[2], a[3], b[1], b[2], b[3]) : a \in IrrSet, b \in MeteoSet}

\* climatologies and projections of a multiplicative variable
MultClim == {Monthly(c, c) : c \in {0, 10}}
MultFut == {Monthly(f, 10) : f \in {-10, 0, 10, 11}}
WindFut == {Monthly(f, 10) : f \in {-10, 10}}
\* of temperature
TasClim == {Monthly(20, 20)}
TasFut == {Monthly(f, 20) : f \in {20, 23}}
\* of humidity, which may be missing on either side
HursClim == {NoData, Monthly(70, 70)}
HursFut == {NoData} \cup {Monthly(f, 70) : f \in {-80, 70, 250}}

Sources(rsds, tas, wind, hurs) ==
    [v \in VarSet |-> CASE v = "rsds" -> rsds [] v = "tas" -> tas
                        [] v = "sfcWind" -> wind [] OTHER -> hurs]

----------------------------------------------------------------------------
(* One call of morph_one_year on inputs drawn from the sets above.         *)

Target == [ssp |-> SCENARIOS[si], year |-> YEARS[yi]]

\* at the start of a run of the pipeline: nothing loaded yet, no spreadsheet on
\* disk, the consolidation not run, no function studied on its own
NothingElse ==
    /\ loads = [v \in VarSet |-> 0]
    /\ planilha = NoData
    /\ consolidated = NoConsolidated
    /\ arg = NoData
    /\ ret = NoData

\* the file system after morph_one_year wrote its CSV
WriteCsv(c) == [k \in DOMAIN csvs \cup {c.out_path} |->
                  IF k = c.out_path THEN c.rows ELSE csvs[k]]

InitMorph ==
    /\ base \in {Profile(j, StdRecord) : j \in RefRecords}
    /\ hist \in {Sources(a, b, c, d) : a \in MultClim, b \in TasClim, c \in MultClim, d \in HursClim}
    /\ nex \in {Sources(a, b, c, d) : a \in MultFut, b \in TasFut, c \in WindFut, d \in HursFut}
    /\ si = 1
    /\ yi \in {1, Len(YEARS)}
    /\ pc = "call"
    /\ call = NoData
    /\ csvs = << >>
    /\ results = << >>
    /\ logs = << >>
    /\ table = NoTable
    /\ NothingElse

\* the call and its return: the CSV is written unless the call raised
MorphCall ==
    /\ pc = "call"
    /\ LET c == morph_one_year(Target.ssp, Target.year)
       IN  /\ call' = c
           /\ csvs' = IF c.raised THEN csvs ELSE WriteCsv(c)
    /\ pc' = "returned"
    /\ loads' = LoadsAfterCall
    /\ UNCHANGED <<base, hist, nex, si, yi, results, logs, table, apart>>

NextMorph == MorphCall

SpecMorph == InitMorph /\ [][NextMorph]_vars

----------------------------------------------------------------------------
(* main(): the loop over SCENARIOS x YEARS.                                *)

Str(msg) == [kind |-> "str", v |-> msg]

\* Label without the cutoff rule: the nominal scenario
LabelNominal(ssp, year) == ssp

\* "historical" if year < 2015 else ssp, as main() labels entries and logs
Label(ssp, year) == IF year < CutoffYear THEN "historical" ELSE ssp

\* f"log_{label}_{year}.txt"
LogName(label, year) == [prefix |-> "log", label |-> label, year |-> year, ext |-> "txt"]

\* the loops are over: every scenario was iterated
LoopsDone == si > Len(SCENARIOS)

\* the historical-duplicate rule: `continue` for a year before 2015 outside SCENARIOS[0]
Skipped(s, y) == YEARS[y] < CutoffYear /\ SCENARIOS[s] # SCENARIOS[1]

\* the position of the inner loop after the current target
NextPos == IF yi < Len(YEARS) THEN <<si, yi + 1>> ELSE <<si + 1, 1>>

\* inputs of a run: one reference profile, the historical sources, and for each
\* target the projection files found for it
HistRun == {Sources(a, Monthly(20, 20), Monthly(10, 10), d) :
               a \in {NoData, Monthly(0, 0), Monthly(10, 10)}, d \in HursClim}
NexRun == {Sources(a, Monthly(20, 20), Monthly(10, 10), Monthly(70, 70)) :
               a \in {NoData, Monthly(11, 10)}}

\* the yield engine is external: what run_sam_from_csv may raise
SamErrors == {<<"pvwatts", "exec", "failed">>}

\* next iteration of the inner loop; the projection files of the next target are read then
Advance ==
    /\ si' = NextPos[1]
    /\ yi' = NextPos[2]
    /\ nex' \in NexRun

\* the except branches of main(): one failure entry and one log with "ERRO: <msg>\n"
FailureEntry(ssp, year, msg) ==
    [modelo |-> MODEL, ssp |-> Label(ssp, year), ano |-> year, erro |-> Str(msg)]

WriteLog(name, content) ==
    [k \in DOMAIN logs \cup {name} |-> IF k = name THEN content ELSE logs[k]]

\* RecordFailure that writes the log but appends no entry
RecordFailureLogOnly(ssp, year, msg) ==
    /\ results' = results
    /\ logs' = WriteLog(LogName(Label(ssp, year), year),
                        [kind |-> "text", text |-> <<"ERRO: ">> \o msg \o <<"\n">>])

RecordFailure(ssp, year, msg) ==
    /\ results' = Append(results, FailureEntry(ssp, year, msg))
    /\ logs' = WriteLog(LogName(Label(ssp, year), year),
                        [kind |-> "text", text |-> <<"ERRO: ">> \o msg \o <<"\n">>])

\* the entry of a successful run_sam_from_csv, after res.update(...)
SuccessEntry(ssp, year, path) ==
    [arquivo |-> path, annual_mwh |-> "annual_mwh", capacity_factor |-> "capacity_factor",
     ac_monthly_kwh |-> "ac_monthly", tempo_s |-> "tempo_s",
     modelo |-> MODEL, ssp |-> Label(ssp, year), ano |-> year, erro |-> NoData]

Init ==
    /\ base = Profile(StdRecord, StdRecord)
    /\ hist \in HistRun
    /\ nex \in NexRun
    /\ si = 1
    /\ yi = 1
    /\ pc = "loop"
    /\ call = NoData
    /\ csvs = << >>
    /\ results = << >>
    /\ logs = << >>
    /\ table = NoTable
    /\ NothingElse

\* `continue`: the target is not visited
Skip ==
    /\ pc = "loop"
    /\ ~LoopsDone
    /\ Skipped(si, yi)
    /\ Advance
    /\ UNCHANGED <<base, hist, pc, call, csvs, results, logs, table, loads, apart>>

\* the reference table had morph_one_year assigned the columns in place to a
\* table kept from one call to the next
ReferenceMorphed(c) ==
    IF c.raised THEN base
    ELSE [i \in 1..Len(base) |->
             [base[i] EXCEPT !.GHI = c.rows[i].GHI, !.DNI = c.rows[i].DNI,
                             !.DHI = c.rows[i].DHI, !.TempC = c.rows[i].TempC,
                             !.WindSpeed = c.rows[i].WindSpeed,
                             !.RelHum = c.rows[i].RelHum]]

\* base = read_era5_base(CSV_ERA5_BASE) is read again by every call and the
\* columns are assigned to df = base.copy(): the reference is as it was
ReferenceAfter(c) == base

\* out_csv = morph_one_year(ssp, year), or the outer except when it raises
MorphStep ==
    /\ pc = "loop"
    /\ ~LoopsDone
    /\ ~Skipped(si, yi)
    /\ LET c == morph_one_year(Target.ssp, Target.year)
       IN  /\ call' = c
           /\ base' = ReferenceAfter(c)
           /\ IF c.raised
              THEN /\ RecordFailure(Target.ssp, Target.year, c.err)
                   /\ Advance
                   /\ UNCHANGED <<pc, csvs>>
              ELSE /\ csvs' = WriteCsv(c)
                   /\ pc' = "validate"
                   /\ UNCHANGED <<nex, si, yi, results, logs>>
    /\ loads' = LoadsAfterCall
    /\ UNCHANGED <<hist, table, apart>>

\* the files had validate_sam_csv written back its own table: the NaN cells
\* filled and the rows of the 29th of February dropped
CsvsRepaired ==
    [k \in DOMAIN csvs |->
        IF k # call.out_path THEN csvs[k]
        ELSE LET kept == DropLeapDay(csvs[k])
             IN  [i \in 1..Len(kept) |->
                     [c \in DOMAIN kept[i] |->
                         IF c \in Required THEN FillNa(kept[i][c], R(0)) ELSE kept[i][c]]]]

\* validate_sam_csv reads the file into a table of its own and writes nothing
CsvsAfterValidation == csvs

\* validate_sam_csv(out_csv), or the outer except when it raises
ValidateStep ==
    /\ pc = "validate"
    /\ LET v == validate_sam_csv(csvs[call.out_path])
       IN  IF v.ok
           THEN /\ pc' = "sam"
                /\ UNCHANGED <<nex, si, yi, results, logs>>
           ELSE /\ RecordFailure(Target.ssp, Target.year, v.err)
                /\ Advance
                /\ pc' = "loop"
    /\ csvs' = CsvsAfterValidation
    /\ UNCHANGED <<base, hist, call, table, loads, apart>>

\* run_sam_from_csv(out_csv) returns: the entry is appended and the log is its JSON
SamOk ==
    /\ pc = "sam"
    /\ LET res == SuccessEntry(Target.ssp, Target.year, call.out_path)
       IN  /\ results' = Append(results, res)
           /\ logs' = WriteLog(LogName(res.ssp, Target.year), [kind |-> "json", data |-> res])
    /\ Advance
    /\ pc' = "loop"
    /\ UNCHANGED <<base, hist, call, csvs, table, loads, apart>>

\* run_sam_from_csv(out_csv) raises: the inner except
SamFails ==
    /\ pc = "sam"
    /\ \E e \in SamErrors :
          RecordFailure(Target.ssp, Target.year, <<"SAM falhou: ">> \o e)
    /\ Advance
    /\ pc' = "loop"
    /\ UNCHANGED <<base, hist, call, csvs, table, loads, apart>>

\* after the loops: pd.DataFrame(results).to_csv(OUT_RESULTS_CSV)
WriteResults ==
    /\ pc = "loop"
    /\ LoopsDone
    /\ table' = [written |-> TRUE,
                 rows |-> [i \in 1..Len(results) |->
                    [modelo |-> results[i].modelo, ssp |-> results[i].ssp,
                     ano |-> results[i].ano, erro |-> results[i].erro]]]
    /\ pc' = "done"
    /\ UNCHANGED <<base, hist, nex, si, yi, call, csvs, results, logs, loads, apart>>

Next == Skip \/ MorphStep \/ ValidateStep \/ SamOk \/ SamFails \/ WriteResults

Spec == Init /\ [][Next]_vars

\* a run whose historical climatology of wind may be zero (calm months)
HistDegenerate ==
    {Sources(Monthly(10, 10), Monthly(20, 20), w, d) :
        w \in {Monthly(0, 10), Monthly(0, 0), Monthly(10, 10)}, d \in HursClim}

InitDegenerate ==
    /\ base = Profile(StdRecord, StdRecord)
    /\ hist \in HistDegenerate
    /\ nex \in NexRun
    /\ si = 1
    /\ yi = 1
    /\ pc = "loop"
    /\ call = NoData
    /\ csvs = << >>
    /\ results = << >>
    /\ logs = << >>
    /\ table = NoTable
    /\ NothingElse

SpecDegenerate == InitDegenerate /\ [][Next]_vars

----------------------------------------------------------------------------
(* main() when opening a log file may raise.  In Spec every write succeeds; *)
(* here the open() that follows results.append(res) in the inner try may    *)
(* raise OSError, and so may the open() of each except branch it leads to.  *)

\* what open() may raise
IoErrors == {<<"[Errno 13] Permission denied">>}

\* the entries main() holds when open() raised after results.append(res): the
\* success entry, then the entry of the inner except
AfterLogFails(e) ==
    results \o <<SuccessEntry(Target.ssp, Target.year, call.out_path),
                 FailureEntry(Target.ssp, Target.year, <<"SAM falhou: ">> \o e)>>

\* open() raises after results.append(res); the inner except appends its entry
\* and writes the log
SamLogFails ==
    /\ pc = "sam"
    /\ \E e \in IoErrors :
          /\ results' = AfterLogFails(e)
          /\ logs' = WriteLog(LogName(Label(Target.ssp, Target.year), Target.year),
                              [kind |-> "text",
                               text |-> <<"ERRO: ", "SAM falhou: ">> \o e \o <<"\n">>])
    /\ Advance
    /\ pc' = "loop"
    /\ UNCHANGED <<base, hist, call, csvs, table, loads, apart>>

\* the open() of the inner except raises as well; the outer except appends its
\* entry and writes the log
SamLogFailsTwice ==
    /\ pc = "sam"
    /\ \E e \in IoErrors : \E f \in IoErrors :
          /\ results' = Append(AfterLogFails(e), FailureEntry(Target.ssp, Target.year, f))
          /\ logs' = WriteLog(LogName(Label(Target.ssp, Target.year), Target.year),
                              [kind |-> "text", text |-> <<"ERRO: ">> \o f \o <<"\n">>])
    /\ Advance
    /\ pc' = "loop"
    /\ UNCHANGED <<base, hist, call, csvs, table, loads, apart>>

\* the open() of the outer except raises too: the exception leaves main()
SamLogFailsAbort ==
    /\ pc = "sam"
    /\ \E e \in IoErrors : \E f \in IoErrors :
          results' = Append(AfterLogFails(e), FailureEntry(Target.ssp, Target.year, f))
    /\ pc' = "aborted"
    /\ UNCHANGED <<base, hist, nex, si, yi, call, csvs, logs, table, loads, apart>>

NextIO == Next \/ SamLogFails \/ SamLogFailsTwice \/ SamLogFailsAbort

SpecIO == Init /\ [][NextIO]_vars

----------------------------------------------------------------------------
(* The consolidation script: one row per log file, plus one per morphed    *)
(* CSV without a log, sorted by (ssp, ano).                                *)

\* the scenario directories and log labels the script knows, in sort order
Labels == <<"historical", "ssp245", "ssp585">>
LabelSet == {Labels[i] : i \in 1..Len(Labels)}

\* \d{4}
FourDigits(n) == n >= 1000 /\ n <= 9999

\* re.match(r"log_(historical|ssp245|ssp585)_(\d{4})\.txt$", name)
LogNameMatches(n) ==
    n.prefix = "log" /\ n.label \in LabelSet /\ FourDigits(n.year) /\ n.ext = "txt"

\* csv_map: (sub, ano) -> path, from the files SAM_*_<sub>_*_morph.csv in <sub>/
csv_map ==
    LET hits == {p \in DOMAIN csvs : p.dir \in LabelSet /\ p.label = p.dir /\ FourDigits(p.year)}
    IN  [k \in {<<p.dir, p.year>> : p \in hits} |->
            CHOOSE p \in hits : <<p.dir, p.year>> = k]

\* Text.  A text is a sequence of tokens; a token is a word, one of the blanks
\* " " and "\n", a brace, or the member of a JSON object below.
Blank == {" ", "\n"}
JsonPair == "\"code\": 1"

\* str.strip()
RECURSIVE LStrip(_)
LStrip(t) == IF t # << >> /\ Head(t) \in Blank THEN LStrip(Tail(t)) ELSE t

RECURSIVE RStrip(_)
RStrip(t) ==
    IF t # << >> /\ t[Len(t)] \in Blank THEN RStrip(SubSeq(t, 1, Len(t) - 1)) ELSE t

Strip(t) == RStrip(LStrip(t))

\* re.search(r"\{.*\}", txt, flags=re.DOTALL): from the first "{" to the last "}"
BraceSpan(t) ==
    LET opens == {i \in 1..Len(t) : t[i] = "{"}
        first == CHOOSE i \in opens : \A j \in opens : i <= j
        closes == {i \in 1..Len(t) : t[i] = "}" /\ i > first}
        last == CHOOSE i \in closes : \A j \in closes : j <= i
    IN  IF opens = {} \/ closes = {} THEN << >> ELSE SubSeq(t, first, last)

\* json.loads of a span "{ ... }": an object with no member or with one member
JsonLoads(span) ==
    LET inner == SelectSeq(SubSeq(span, 2, Len(span) - 1), LAMBDA x : x \notin Blank)
    IN  IF inner = << >> THEN [ok |-> TRUE, data |-> << >>]
        ELSE IF inner = <<JsonPair>> THEN [ok |-> TRUE, data |-> [code |-> 1]]
        ELSE [ok |-> FALSE, data |-> NoData]

\* re.search(r"ERRO:\s*(.+)", txt).group(1).strip() on a text that starts with
\* "ERRO: ": \s* runs over blanks and line ends, (.+) stops at the next line end
ErroGroup(t) ==
    LET rest == LStrip(Tail(t))
        ends == {i \in 1..Len(rest) : rest[i] = "\n"}
        stop == IF ends = {} THEN Len(rest)
                ELSE (CHOOSE i \in ends : \A j \in ends : i <= j) - 1
    IN  Strip(SubSeq(rest, 1, stop))

\* parse_log_file(fp): the JSON main() dumps; else a JSON object found inside
\* the text; else the line after "ERRO:"; else the text is not recognised
parse_log_file(c) ==
    IF c.kind = "json" THEN [ok |-> TRUE, data |-> c.data, msg |-> NoData]
    ELSE LET txt == Strip(c.text)
             span == BraceSpan(txt)
         IN  IF span # << >> /\ JsonLoads(span).ok
             THEN [ok |-> TRUE, data |-> JsonLoads(span).data, msg |-> NoData]
             ELSE IF txt # << >> /\ txt[1] = "ERRO: " /\ ErroGroup(txt) # << >>
             THEN [ok |-> FALSE, data |-> NoData, msg |-> Str(ErroGroup(txt))]
             ELSE [ok |-> FALSE, data |-> NoData,
                   msg |-> Str(<<"Formato de log nao reconhecido.">>)]

\* the path the script guesses for a key that is not in csv_map
NotFound(label, year) ==
    [dir |-> label, model |-> MODEL, label |-> label, year |-> year,
     note |-> " (NAO_ENCONTRADO)"]

\* the row of one log file: ERRO when the log is not JSON or its 'erro' is set
LogRow(n) ==
    LET parsed == parse_log_file(logs[n])
        key == <<n.label, n.year>>
        d == parsed.data
        filled == parsed.ok /\ DOMAIN d # {}
        erro == IF filled /\ "erro" \in DOMAIN d THEN d.erro ELSE NoData
        failed == erro # NoData /\ erro.v # << >>
    IN  [ssp |-> n.label, ano |-> n.year,
         caminho_csv |-> IF key \in DOMAIN csv_map THEN csv_map[key]
                         ELSE NotFound(n.label, n.year),
         log_arquivo |-> n,
         log_status |-> IF parsed.ok /\ ~failed THEN "OK" ELSE "ERRO",
         log_msg |-> IF failed THEN erro ELSE parsed.msg]

\* the row of a morphed CSV that has no log
CsvRow(k) ==
    [ssp |-> k[1], ano |-> k[2], caminho_csv |-> csv_map[k], log_arquivo |-> NoData,
     log_status |-> "SEM_LOG", log_msg |-> Str(<<"Sem log correspondente.">>)]

LabelRank(l) == CHOOSE i \in 1..Len(Labels) : Labels[i] = l

\* the order of (ssp, ano): of df.sort_values(["ssp", "ano"]), and of the sorted
\* log file names
RowBefore(a, b) ==
    \/ LabelRank(a.ssp) < LabelRank(b.ssp)
    \/ LabelRank(a.ssp) = LabelRank(b.ssp) /\ a.ano < b.ano

\* the members of a set of rows with distinct keys, in that order
RECURSIVE SortRows(_)
SortRows(S) ==
    IF S = {} THEN << >>
    ELSE LET r == CHOOSE x \in S : \A y \in S : ~RowBefore(y, x)
         IN  <<r>> \o SortRows(S \ {r})

\* a list of rows sorted by (ssp, ano); rows of one key stay in their order
RECURSIVE SortList(_)
SortList(rows) ==
    IF rows = << >> THEN << >>
    ELSE LET n == Len(rows)
             rest == SortList(SubSeq(rows, 1, n - 1))
             k == Cardinality({i \in 1..Len(rest) : ~RowBefore(rows[n], rest[i])})
         IN  SubSeq(rest, 1, k) \o <<rows[n]>> \o SubSeq(rest, k + 1, Len(rest))

\* a script that kept the rows of its previous run
RowsOfPreviousRun == consolidated.rows

\* rows = [] when the script starts
RowsAtStart == << >>

\* the rows appended for the logs, in the order of the sorted file names
LogRows == SortRows({LogRow(n) : n \in {x \in DOMAIN logs : LogNameMatches(x)}})

\* a script that added a row for every morphed CSV
WithoutLogAll(rows) == DOMAIN csv_map

\* the keys of csv_map for which `rows` holds no row
WithoutLog(rows) ==
    {k \in DOMAIN csv_map : \A i \in 1..Len(rows) : <<rows[i].ssp, rows[i].ano>> # k}

\* the consolidated table the script writes for the logs and CSVs now on disk
ConsolidatedRows ==
    LET rows == RowsAtStart \o LogRows
    IN  SortList(rows \o SortRows({CsvRow(k) : k \in WithoutLog(rows)}))

\* one run of the consolidation script on the files now on disk; the pipeline
\* is not running while (and after) the script runs
MaxConsolidations == 2

Consolidate ==
    /\ consolidated.runs < MaxConsolidations
    /\ pc' = "consolidate"
    /\ consolidated' = [runs |-> consolidated.runs + 1, rows |-> ConsolidatedRows]
    /\ UNCHANGED <<base, hist, nex, si, yi, call, csvs, results, logs, table,
                   loads, planilha, arg, ret>>

\* what str(e) of a caught exception may be: any text of at most MaxTextLen tokens
MaxTextLen == 3
Tokens == {"x", " ", "\n", "{", "}", JsonPair}
ErrorTexts == UNION {[1..n -> Tokens] : n \in 0..MaxTextLen}

\* main() at the first target, entering one of its except branches: the inner
\* one (run_sam_from_csv raised, the CSV is written) or the outer one
InitLog ==
    /\ base = Profile(StdRecord, StdRecord)
    /\ hist = Sources(Monthly(10, 10), Monthly(20, 20), Monthly(10, 10), NoData)
    /\ nex \in NexRun
    /\ si = 1
    /\ yi = 1
    /\ pc = "except"
    /\ call = NoData
    /\ csvs \in {<< >>, [p \in {OutPath(OutSubdir(SCENARIOS[1], YEARS[1]), YEARS[1])} |-> base]}
    /\ results = << >>
    /\ logs = << >>
    /\ table = NoTable
    /\ loads = [v \in VarSet |-> 0]
    /\ planilha = NoData
    /\ consolidated = NoConsolidated
    /\ arg \in {a \in [op : {"except"}, inner : BOOLEAN, text : ErrorTexts] :
                   a.inner => csvs # << >>}
    /\ ret = NoData

\* msg = f"SAM falhou: {e}" in the inner branch, msg = str(e) in the outer one
ExceptStep ==
    /\ pc = "except"
    /\ RecordFailure(Target.ssp, Target.year,
                     IF arg.inner THEN <<"SAM falhou: ">> \o arg.text ELSE arg.text)
    /\ Advance
    /\ pc' = "loop"
    /\ UNCHANGED <<base, hist, call, csvs, table, loads, apart>>

NextLog == ExceptStep \/ Consolidate

SpecLog == InitLog /\ [][NextLog]_vars

----------------------------------------------------------------------------
(* Functions of the pipeline applied on their own to inputs drawn from     *)
(* bounded sets: arg is the input, ret the value returned or the exception. *)

\* the pipeline is not running
Idle ==
    /\ base = Profile(StdRecord, StdRecord)
    /\ nex = Sources(Monthly(11, 10), Monthly(20, 20), Monthly(10, 10), Monthly(70, 70))
    /\ si = 1
    /\ yi = 1
    /\ pc = "call"
    /\ call = NoData
    /\ csvs = << >>
    /\ results = << >>
    /\ logs = << >>
    /\ table = NoTable
    /\ loads = [v \in VarSet |-> 0]
    /\ consolidated = NoConsolidated
    /\ ret = NoData

\* the spreadsheet PLANILHA_ERA5: absent, or a workbook of at most MaxSheets
\* sheets, each with some of the (normalised) column names
MaxSheets == 2
SheetColumns == {"data", "ssr", "skt"}
Planilhas ==
    {NoData} \cup
    {[sheets |-> sh] :
        sh \in UNION {[1..n -> [columns : SUBSET SheetColumns]] : n \in 1..MaxSheets}}

\* the historical archive with any of its variables missing
HistAny ==
    {Sources(a, b, c, d) : a \in {NoData, Monthly(10, 10)}, b \in {NoData, Monthly(20, 20)},
                           c \in {NoData, Monthly(10, 10)}, d \in HursClim}

InitClims ==
    /\ Idle
    /\ hist \in HistAny
    /\ planilha \in Planilhas
    /\ arg = [op |-> "load_hist_clims"]

\* clim = load_hist_clims()
ApplyClims ==
    /\ pc = "call"
    /\ arg.op = "load_hist_clims"
    /\ ret' = load_hist_clims
    /\ loads' = LoadsAfterCall
    /\ pc' = "returned"
    /\ UNCHANGED <<base, hist, nex, si, yi, call, csvs, results, logs, table,
                   planilha, consolidated, arg>>

NextClims == ApplyClims

SpecClims == InitClims /\ [][NextClims]_vars

\* inputs of _as_monthly_series: None, a scalar, or a sequence of up to
\* NumMonths + ExtraLen values
ExtraLen == 1
MonthlyValues == {R(0), R(7), NaN}
MonthlyInputs ==
    {NoData} \cup {[kind |-> "float", v |-> c] : c \in MonthlyValues}
             \cup {Series([i \in 1..n |-> c]) : n \in 0..(NumMonths + ExtraLen), c \in MonthlyValues}

InitMonthly ==
    /\ Idle
    /\ hist = Sources(Monthly(10, 10), Monthly(20, 20), Monthly(10, 10), NoData)
    /\ planilha = NoData
    /\ arg \in [op : {"_as_monthly_series"}, x : MonthlyInputs, allow_none : BOOLEAN,
                fill : {NoData, R(0)}]

\* s = _as_monthly_series(x, name, allow_none, fill)
ApplyMonthly ==
    /\ pc = "call"
    /\ arg.op = "_as_monthly_series"
    /\ ret' = AsMonthlySeries(arg.x, "x", arg.allow_none, arg.fill)
    /\ pc' = "returned"
    /\ UNCHANGED <<base, hist, nex, si, yi, call, csvs, results, logs, table,
                   loads, planilha, consolidated, arg>>

NextMonthly == ApplyMonthly

SpecMonthly == InitMonthly /\ [][NextMonthly]_vars

\* files handed to validate_sam_csv: n rows of which the first k are hours of
\* the 29th of February, under any header, with at most one DateTime cell that is
\* not a timestamp and one cell that is empty or not a number
MaxLeapDays == 1
Stamp(i, k) ==
    IF i <= k
    THEN [year |-> RefYear, month |-> 2, day |-> 29, hour |-> (i - 1) % HoursPerDay]
    ELSE [year |-> RefYear, month |-> (((i - k - 1) \div HoursPerDay) % NumMonths) + 1,
          day |-> 1 + ((i - k - 1) \div (HoursPerDay * NumMonths)),
          hour |-> (i - k - 1) % HoursPerDay]

FileRow(i, k, badstamp, badcell) ==
    [c \in {"DateTime"} \cup Required |->
        IF c = "DateTime" THEN (IF badstamp /\ i = 1 THEN NotADate ELSE Stamp(i, k))
        ELSE IF badcell # << >> /\ badcell[1] = c /\ i = 1 THEN badcell[2]
        ELSE R(5)]

Restrict(r, cols) == [c \in cols |-> r[c]]

Files ==
    {[columns |-> cols,
      rows |-> [i \in 1..n |-> Restrict(FileRow(i, k, bs, bc), cols)]] :
        cols \in SUBSET ({"DateTime"} \cup Required),
        n \in (NumRows - 1)..(LeapRows + 1),
        k \in 0..(MaxLeapDays * HoursPerDay),
        bs \in BOOLEAN,
        bc \in {<< >>} \cup {<<c, v>> : c \in Required, v \in {NaN, TextCell}}}

InitValidate ==
    /\ Idle
    /\ hist = Sources(Monthly(10, 10), Monthly(20, 20), Monthly(10, 10), NoData)
    /\ planilha = NoData
    /\ arg \in [op : {"validate_sam_csv"}, file : Files]

\* validate_sam_csv(path)
ApplyValidate ==
    /\ pc = "call"
    /\ arg.op = "validate_sam_csv"
    /\ ret' = validate_file(arg.file)
    /\ pc' = "returned"
    /\ UNCHANGED <<base, hist, nex, si, yi, call, csvs, results, logs, table,
                   loads, planilha, consolidated, arg>>

NextValidate == ApplyValidate

SpecValidate == InitValidate /\ [][NextValidate]_vars

----------------------------------------------------------------------------
(* The generator of the yearly hourly series (gera_csvs_sam_number0): its  *)
(* input is arg (the files found for each year, the CSVs that already       *)
(* exist), its state is ret (position in the loop over the years, the CSVs *)
(* written, the table extracted for the year in hand).                      *)

\* the years of the files found: a common year and a leap year
GenYears == <<2019, 2020>>

\* the days of year y in the reduced calendar: the first of each month, and the
\* 29th of February in a leap year
DaysOf(y) ==
    [d \in 1..(NumMonths + (IF IsLeapYear(y) THEN 1 ELSE 0)) |->
        IF ~IsLeapYear(y) \/ d <= 2 THEN <<d, 1>>
        ELSE IF d = 3 THEN <<2, 29>>
        ELSE <<d - 1, 1>>]

\* expected_hourly_index without the 29th of February
expected_hourly_index_365(year) ==
    [i \in 1..NumRows |->
        [year |-> year, month |-> ((i - 1) \div HoursPerDay) + 1, day |-> 1,
         hour |-> (i - 1) % HoursPerDay]]

\* expected_hourly_index(year): every hour from 1 January 00h to 31 December 23h
expected_hourly_index(year) ==
    [i \in 1..(Len(DaysOf(year)) * HoursPerDay) |->
        LET d == DaysOf(year)[((i - 1) \div HoursPerDay) + 1]
        IN  [year |-> year, month |-> d[1], day |-> d[2], hour |-> (i - 1) % HoursPerDay]]

\* dt.floor("h")
Floor(t) == [year |-> t.year, month |-> t.month, day |-> t.day, hour |-> t.hour]

RECURSIVE SumOf(_)
SumOf(vals) == IF vals = << >> THEN R(0) ELSE RAdd(Head(vals), SumOf(Tail(vals)))

\* the first value of a group
FirstOf(vals) == IF vals = << >> THEN NaN ELSE vals[1]

\* .mean() of a group: of its values that are not NaN
MeanOf(vals) ==
    LET nums == SelectSeq(vals, LAMBDA v : ~IsNaN(v))
    IN  IF nums = << >> THEN NaN ELSE RDiv(SumOf(nums), R(Len(nums)))

ValuesAt(samples, h) ==
    LET at == SelectSeq(samples, LAMBDA x : Floor(x.t) = h)
    IN  [i \in 1..Len(at) |-> at[i].v]

\* extract_datetime_and_values(wspd, target_year): the timestamps floored to the
\* hour, the samples of other years dropped, then one row per hour with the mean
extract_datetime_and_values(samples, target_year) ==
    LET inyear == SelectSeq(samples, LAMBDA x : Floor(x.t).year = target_year)
        hours == {Floor(inyear[i].t) : i \in 1..Len(inyear)}
    IN  [h \in hours |-> MeanOf(ValuesAt(inyear, h))]

\* reindex that fills the hours without a row
ReindexFilled(df, idx) ==
    [i \in 1..Len(idx) |->
        [DateTime |-> idx[i],
         WindSpeed |-> IF idx[i] \in DOMAIN df /\ ~IsNaN(df[idx[i]]) THEN df[idx[i]] ELSE R(0)]]

\* df.set_index("DateTime").reindex(idx): the rows of idx, NaN where df has none
Reindex(df, idx) ==
    [i \in 1..Len(idx) |->
        [DateTime |-> idx[i],
         WindSpeed |-> IF idx[i] \in DOMAIN df THEN df[idx[i]] ELSE NaN]]

\* the samples of the files of a year that could be opened
RECURSIVE Concat(_)
Concat(files) ==
    IF files = << >> THEN << >>
    ELSE (IF Head(files).readable THEN Head(files).samples ELSE << >>) \o Concat(Tail(files))

DsList(y) == SelectSeq(arg.by_year[y], LAMBDA f : f.readable)

\* inputs: the two files of a year hold one sample for every hour of the year
\* but the hour `drop`; the first file holds up to MaxExtra more samples: two
\* within the first hour, one of the next year, one without a value; or one or
\* both of the files cannot be opened
MaxExtra == 2
ExtraSample(k, y) ==
    CASE k = 1 -> [t |-> [year |-> y, month |-> 1, day |-> 1, hour |-> 0, minute |-> 30], v |-> R(4)]
      [] k = 2 -> [t |-> [year |-> y, month |-> 1, day |-> 1, hour |-> 0, minute |-> 59], v |-> R(9)]
      [] k = 3 -> [t |-> [year |-> y + 1, month |-> 1, day |-> 1, hour |-> 0, minute |-> 0], v |-> R(9)]
      [] OTHER -> [t |-> [year |-> y, month |-> 1, day |-> 1, hour |-> 0, minute |-> 15], v |-> NaN]

ExtraKinds == {"second", "third", "next year", "no value"}
KindIndex(k) ==
    CASE k = "second" -> 1 [] k = "third" -> 2 [] k = "next year" -> 3 [] OTHER -> 4

RECURSIVE ExtraSamples(_, _)
ExtraSamples(kinds, y) ==
    IF kinds = {} THEN << >>
    ELSE LET k == CHOOSE x \in kinds : \A z \in kinds : KindIndex(x) <= KindIndex(z)
         IN  <<ExtraSample(KindIndex(k), y)>> \o ExtraSamples(kinds \ {k}, y)

HourSamples(y, drop) ==
    LET idx == expected_hourly_index(y)
        kept == SelectSeq([i \in 1..Len(idx) |-> i], LAMBDA i : i # drop)
    IN  [j \in 1..Len(kept) |->
            LET h == idx[kept[j]]
            IN  [t |-> [year |-> h.year, month |-> h.month, day |-> h.day,
                        hour |-> h.hour, minute |-> 0],
                 v |-> R(2)]]

YearFiles(y, readable, drop, kinds) ==
    LET all == HourSamples(y, drop)
    IN  <<[readable |-> readable[1],
           samples |-> SelectSeq(all, LAMBDA x : x.t.month <= 6) \o ExtraSamples(kinds, y)],
          [readable |-> readable[2],
           samples |-> SelectSeq(all, LAMBDA x : x.t.month > 6)]>>

YearInputs(y) ==
    {YearFiles(y, <<TRUE, TRUE>>, d, ks) :
        d \in {0, 1, 3, Len(expected_hourly_index(y))},
        ks \in {x \in SUBSET ExtraKinds : Cardinality(x) <= MaxExtra}}
    \cup {YearFiles(y, r, 0, {}) : r \in {<<TRUE, FALSE>>, <<FALSE, FALSE>>}}

GenYearSet == {GenYears[i] : i \in 1..Len(GenYears)}

\* the complete input of a year
StdFiles(y) == YearFiles(y, <<TRUE, TRUE>>, 0, {})

\* the input of the script: one of the two years departs from the complete
\* input, and the CSV of the first year may exist already
GenInputs ==
    {[op |-> "generate", existing |-> {},
      by_year |-> [y \in GenYearSet |-> IF y = GenYears[1] THEN a ELSE StdFiles(y)]] :
        a \in YearInputs(GenYears[1])}
    \cup
    {[op |-> "generate", existing |-> ex,
      by_year |-> [y \in GenYearSet |-> IF y = GenYears[2] THEN b ELSE StdFiles(y)]] :
        b \in YearInputs(GenYears[2]), ex \in {{}, {GenYears[1]}}}

InitGen ==
    /\ Idle
    /\ hist = Sources(Monthly(10, 10), Monthly(20, 20), Monthly(10, 10), NoData)
    /\ planilha = NoData
    /\ arg \in GenInputs

\* years = sorted(by_year.keys())
GenStart ==
    /\ pc = "call"
    /\ arg.op = "generate"
    /\ ret' = [i |-> 1, year |-> 0, df |-> << >>, written |-> << >>, error |-> << >>]
    /\ pc' = "years"
    /\ UNCHANGED <<base, hist, nex, si, yi, call, csvs, results, logs, table,
                   loads, planilha, consolidated, arg>>

GenYear == GenYears[ret.i]

GenUnchanged ==
    UNCHANGED <<base, hist, nex, si, yi, call, csvs, results, logs, table,
                loads, planilha, consolidated, arg>>

\* out_csv.exists(): continue
GenSkipExisting ==
    /\ pc = "years"
    /\ ret.i <= Len(GenYears)
    /\ GenYear \in arg.existing
    /\ ret' = [ret EXCEPT !.i = @ + 1]
    /\ UNCHANGED pc
    /\ GenUnchanged

\* no file of the year could be opened: a message, continue
GenNoFiles ==
    /\ pc = "years"
    /\ ret.i <= Len(GenYears)
    /\ GenYear \notin arg.existing
    /\ DsList(GenYear) = << >>
    /\ ret' = [ret EXCEPT !.i = @ + 1]
    /\ UNCHANGED pc
    /\ GenUnchanged

\* the year in hand: extract, reindex, then raise RuntimeError when an hour has
\* no value (the script ends there), else write the CSV
GenProcess ==
    /\ pc = "years"
    /\ ret.i <= Len(GenYears)
    /\ GenYear \notin arg.existing
    /\ DsList(GenYear) # << >>
    /\ LET df == extract_datetime_and_values(Concat(arg.by_year[GenYear]), GenYear)
           rows == Reindex(df, expected_hourly_index(GenYear))
           missing == Cardinality({i \in 1..Len(rows) : IsNaN(rows[i].WindSpeed)})
       IN  IF missing > 0
           THEN /\ ret' = [ret EXCEPT !.year = GenYear, !.df = df,
                                      !.error = <<"faltam horas no indice horario esperado",
                                                  ToString(GenYear), ToString(missing)>>]
                /\ pc' = "aborted"
           ELSE /\ ret' = [ret EXCEPT !.i = @ + 1, !.year = GenYear, !.df = df,
                                      !.written = [y \in DOMAIN ret.written \cup {GenYear} |->
                                                      IF y = GenYear THEN rows ELSE ret.written[y]]]
                /\ UNCHANGED pc
    /\ GenUnchanged

\* print("Concluido.")
GenDone ==
    /\ pc = "years"
    /\ ret.i > Len(GenYears)
    /\ pc' = "done"
    /\ UNCHANGED ret
    /\ GenUnchanged

NextGen == GenStart \/ GenSkipExisting \/ GenNoFiles \/ GenProcess \/ GenDone

SpecGen == InitGen /\ [][NextGen]_vars

NextConsol == Next \/ Consolidate

SpecConsol == Init /\ [][NextConsol]_vars

----------------------------------------------------------------------------
(* _load_nex_hist_monthly(var) on its own: arg.archive gives, for each year *)
(* of the window, the file found for it or None; a file holds the sequence  *)
(* of its samples [month, v].                                                *)

\* the window range(1994, 2015), cut to HistYears years
HistYears == 2
HistWindow == [i \in 1..HistYears |-> 1993 + i]

\* the samples of the located files, in the order of the years: xr.concat
RECURSIVE Located(_, _)
Located(archive, years) ==
    IF years = << >> THEN << >>
    ELSE (IF archive[Head(years)] = NoData THEN << >> ELSE <<archive[Head(years)].samples>>)
         \o Located(archive, Tail(years))

RECURSIVE Flatten(_)
Flatten(das) == IF das = << >> THEN << >> ELSE Head(das) \o Flatten(Tail(das))

MonthValues(samples, m) ==
    LET at == SelectSeq(samples, LAMBDA x : x.month = m)
    IN  [i \in 1..Len(at) |-> at[i].v]

\* the months for which groupby("time.month") has a group
MonthsOf(samples) == {samples[i].month : i \in 1..Len(samples)}

\* a climatology that averages the monthly means of the years
load_nex_hist_monthly_by_year(archive) ==
    LET das == Located(archive, HistWindow)
    IN  IF das = << >> THEN Raise(<<"NEX historical nao encontrado">>)
        ELSE IF MonthsOf(Flatten(das)) # Months THEN Raise(<<"Length mismatch">>)
        ELSE Ok(Series([m \in Months |->
                 MeanOf([k \in 1..Len(das) |-> MeanOf(MonthValues(das[k], m))])]))

\* _load_nex_hist_monthly(var): a year without a file is skipped; no file at
\* all raises FileNotFoundError; m.index = range(1, 13) raises when the groups
\* are not twelve; else the mean of each month over the samples of all files
load_nex_hist_monthly(archive) ==
    LET das == Located(archive, HistWindow)
        da == Flatten(das)
    IN  IF das = << >> THEN Raise(<<"NEX historical nao encontrado">>)
        ELSE IF MonthsOf(da) # Months THEN Raise(<<"Length mismatch">>)
        ELSE Ok(Series([m \in Months |-> MeanOf(MonthValues(da, m))]))

\* files of the archive: one sample a month, or two samples in January, one of
\* them without a value in the third kind; the file may lack December
YearFile(jan, rest, upto) ==
    [kind |-> "file",
     samples |-> [i \in 1..(Len(jan) + upto - 1) |->
                     IF i <= Len(jan) THEN [month |-> 1, v |-> jan[i]]
                     ELSE [month |-> i - Len(jan) + 1, v |-> rest]]]

HistFiles ==
    {NoData} \cup
    {YearFile(jan, R(10), n) : jan \in {<<R(6)>>, <<R(0), R(0)>>, <<R(12), NaN>>},
                               n \in {NumMonths - 1, NumMonths}}

HistYearSet == {HistWindow[i] : i \in 1..Len(HistWindow)}

InitHist ==
    /\ Idle
    /\ hist = Sources(Monthly(10, 10), Monthly(20, 20), Monthly(10, 10), NoData)
    /\ planilha = NoData
    /\ arg \in [op : {"_load_nex_hist_monthly"}, var : {"rsds", "tas", "sfcWind"},
                archive : [HistYearSet -> HistFiles]]

\* s = _load_nex_hist_monthly(v)
ApplyHist ==
    /\ pc = "call"
    /\ arg.op = "_load_nex_hist_monthly"
    /\ ret' = load_nex_hist_monthly(arg.archive)
    /\ pc' = "returned"
    /\ UNCHANGED <<base, hist, nex, si, yi, call, csvs, results, logs, table,
                   loads, planilha, consolidated, arg>>

NextHist == ApplyHist

SpecHist == InitHist /\ [][NextHist]_vars

----------------------------------------------------------------------------
(* load_future_monthly(ssp, year) on its own: nex says, for each variable,  *)
(* what the projection file found for the target holds, or None when no     *)
(* file matches.                                                            *)

NexAny ==
    {Sources(a, b, c, d) : a \in {NoData, Monthly(11, 10), Monthly(10, 10)},
                           b \in {NoData, Monthly(23, 20)},
                           c \in {NoData, Monthly(10, 10)}, d \in {NoData, Monthly(70, 70)}}

InitFuture ==
    /\ base = Profile(StdRecord, StdRecord)
    /\ hist = Sources(Monthly(10, 10), Monthly(20, 20), Monthly(10, 10), NoData)
    /\ nex \in NexAny
    /\ si = 1
    /\ yi = 1
    /\ pc = "call"
    /\ call = NoData
    /\ csvs = << >>
    /\ results = << >>
    /\ logs = << >>
    /\ table = NoTable
    /\ loads = [v \in VarSet |-> 0]
    /\ planilha = NoData
    /\ consolidated = NoConsolidated
    /\ arg \in [op : {"load_future_monthly"},
                ssp : {SCENARIOS[i] : i \in 1..Len(SCENARIOS)},
                year : {YEARS[i] : i \in 1..Len(YEARS)}]
    /\ ret = NoData

\* fut = load_future_monthly(ssp, year)
ApplyFuture ==
    /\ pc = "call"
    /\ arg.op = "load_future_monthly"
    /\ ret' = load_future_monthly(arg.ssp, arg.year)
    /\ pc' = "returned"
    /\ UNCHANGED <<base, hist, nex, si, yi, call, csvs, results, logs, table,
                   loads, planilha, consolidated, arg>>

NextFuture == ApplyFuture

SpecFuture == InitFuture /\ [][NextFuture]_vars

----------------------------------------------------------------------------
(* read_era5_base(path) on its own. A reference file is [columns, rows]:    *)
(* each row holds a DateTime cell, a timestamp with its minute, and the     *)
(* cells of the six columns.                                                *)

\* the canonical peak of GHI and the range of the multiplier (_guess_irr_scale)
PeakGhi == 900
ScaleMinInv == 10
ScaleMax == 100
\* the percentile of GHI that is mapped to the peak, in twentieths
PercentileNum == 19
PercentileDen == 20

StampBefore(a, b) ==
    \/ a.year < b.year
    \/ a.year = b.year /\ a.month < b.month
    \/ a.year = b.year /\ a.month = b.month /\ a.day < b.day
    \/ a.year = b.year /\ a.month = b.month /\ a.day = b.day /\ a.hour < b.hour

RAbs(a) == <<Abs(a[1]), a[2]>>

\* df.sort_values("DateTime"): a row goes after the rows that are not later
RECURSIVE InsertByStamp(_, _)
InsertByStamp(r, rows) ==
    IF rows = << >> THEN <<r>>
    ELSE IF StampBefore(r.DateTime, Head(rows).DateTime) THEN <<r>> \o rows
    ELSE <<Head(rows)>> \o InsertByStamp(r, Tail(rows))

RECURSIVE SortByStamp(_)
SortByStamp(rows) ==
    IF rows = << >> THEN << >>
    ELSE InsertByStamp(rows[Len(rows)], SortByStamp(SubSeq(rows, 1, Len(rows) - 1)))

RECURSIVE InsertValue(_, _)
InsertValue(x, vals) ==
    IF vals = << >> THEN <<x>>
    ELSE IF RLt(x, Head(vals)) THEN <<x>> \o vals
    ELSE <<Head(vals)>> \o InsertValue(x, Tail(vals))

RECURSIVE SortValues(_)
SortValues(vals) ==
    IF vals = << >> THEN << >>
    ELSE InsertValue(Head(vals), SortValues(Tail(vals)))

\* np.nanpercentile(vals, 95) of values none of which is NaN: the linear
\* interpolation between the two order statistics around 0.95 * (n - 1)
nanpercentile95(vals) ==
    LET s == SortValues(vals)
        pos == PercentileNum * (Len(s) - 1)
        lo == (pos \div PercentileDen) + 1
        t == RNorm(pos % PercentileDen, PercentileDen)
    IN  IF pos % PercentileDen = 0 THEN s[lo]
        ELSE LET diff == RSub(s[lo + 1], s[lo])
             IN  IF RLt(t, RNorm(1, 2)) THEN RAdd(s[lo], RMul(diff, t))
                 ELSE RSub(s[lo + 1], RMul(diff, RSub(R(1), t)))

\* _guess_irr_scale without the np.clip
guess_irr_scale_unclipped(rows) ==
    LET p95 == IF rows = << >> THEN NaN
               ELSE nanpercentile95([i \in 1..Len(rows) |-> rows[i].GHI])
    IN  IF ~IsFinite(p95) \/ RLe(p95, R(0)) THEN R(1)
        ELSE RDiv(R(PeakGhi), p95)

\* _guess_irr_scale(df)
guess_irr_scale(rows) ==
    LET p95 == IF rows = << >> THEN NaN
               ELSE nanpercentile95([i \in 1..Len(rows) |-> rows[i].GHI])
    IN  IF ~IsFinite(p95) \/ RLe(p95, R(0)) THEN R(1)
        ELSE Clip(RDiv(R(PeakGhi), p95), RNorm(1, ScaleMinInv), R(ScaleMax))

Pinned(x) == [kind |-> "float", v |-> x]

\* the rows with GHI, DNI and DHI multiplied by scale
Scaled(rows, scale) ==
    [i \in 1..Len(rows) |->
        [rows[i] EXCEPT !.GHI = RMul(@, scale), !.DNI = RMul(@, scale),
                        !.DHI = RMul(@, scale)]]

\* read_era5_base(path), with the module's IRRAD_SCALE (None, or a pinned number)
read_era5_base(f, IRRAD_SCALE) ==
    LET n == Len(f.rows)
        absent == {k \in 1..Len(Req) : Req[k] \notin f.columns}
        first == CHOOSE k \in absent : \A j \in absent : k <= j
        floored == [i \in 1..n |-> [f.rows[i] EXCEPT !.DateTime = Floor(@)]]
        sorted == SortByStamp(floored)
        df == [i \in 1..n |->
                 [c \in DOMAIN sorted[i] |->
                     IF c \in Required THEN ToNumeric(sorted[i][c]) ELSE sorted[i][c]]]
        scale == IF IRRAD_SCALE = NoData THEN guess_irr_scale(df) ELSE IRRAD_SCALE.v
        scaled == IF RLt(RNorm(1, EpsInv), RAbs(RSub(scale, R(1))))
                  THEN Scaled(df, scale) ELSE df
        trimmed == IF n = LeapRows THEN DropLeapDay(scaled) ELSE scaled
    IN  IF "DateTime" \notin f.columns
        THEN Raise(<<"CSV ERA5 base precisa ter coluna DateTime.">>)
        ELSE IF \E i \in 1..n : IsNaT(f.rows[i].DateTime)
        THEN Raise(<<"Falha ao converter DateTime",
                     ToString(Cardinality({i \in 1..n : IsNaT(f.rows[i].DateTime)}))>>)
        ELSE IF absent # {} THEN Raise(<<"Falta coluna", Req[first], "no ERA5 base.">>)
        ELSE IF \E i \in 1..n : \E c \in Required : IsNaN(df[i][c])
        THEN Raise(<<"NaN no ERA5 base.">>)
        ELSE IF Len(trimmed) # NumRows
        THEN Raise(<<"ERA5 base tem", ToString(Len(trimmed)), "linhas (esperado 8760).">>)
        ELSE Ok([i \in 1..NumRows |->
                    [c \in DOMAIN trimmed[i] \cup {"month"} |->
                        IF c = "month" THEN trimmed[i].DateTime.month ELSE trimmed[i][c]]])

\* the timestamp of the i-th hour of the reference year, and the hours of its
\* 29th of February
BaseStamp(i) ==
    [year |-> RefYear, month |-> ((i - 1) \div HoursPerDay) + 1, day |-> 1,
     hour |-> (i - 1) % HoursPerDay, minute |-> 0]
LeapStamp(h) == [year |-> RefYear, month |-> 2, day |-> 29, hour |-> h - 1, minute |-> 0]

BaseRow(t, jan, rest) ==
    [DateTime |-> t, GHI |-> IF t.month = 1 THEN jan ELSE rest, DNI |-> R(3),
     DHI |-> R(2), TempC |-> R(25), WindSpeed |-> R(3), RelHum |-> R(70)]

\* one row for every hour
FullYear(jan, rest) == [i \in 1..NumRows |-> BaseRow(BaseStamp(i), jan, rest)]
\* the same with the hours of the 29th of February, as a leap year has them
FullLeapYear(jan, rest) ==
    [i \in 1..LeapRows |->
        IF i <= 2 * HoursPerDay THEN BaseRow(BaseStamp(i), jan, rest)
        ELSE IF i <= 3 * HoursPerDay THEN BaseRow(LeapStamp(i - 2 * HoursPerDay), jan, rest)
        ELSE BaseRow(BaseStamp(i - HoursPerDay), jan, rest)]

Reverse(rows) == [i \in 1..Len(rows) |-> rows[Len(rows) + 1 - i]]
\* the last hour is missing and the first one is there twice
Repeated(rows) == [i \in 1..Len(rows) |-> IF i = Len(rows) THEN rows[1] ELSE rows[i]]
\* the last row was sampled half an hour after the first one
HalfHour(rows) ==
    [i \in 1..Len(rows) |->
        IF i = Len(rows) THEN [rows[1] EXCEPT !.DateTime.minute = 30] ELSE rows[i]]
\* every row was sampled at half past the hour
AllHalfHour(rows) == [i \in 1..Len(rows) |-> [rows[i] EXCEPT !.DateTime.minute = 30]]

AllColumns == {"DateTime"} \cup Required
BaseFile(cols, rows) == [columns |-> cols, rows |-> rows]

\* the tables: complete ones in any order, with a repeated or a missing hour,
\* too short or too long
BaseShapes ==
    LET y == FullYear(R(5), R(5))
        l == FullLeapYear(R(5), R(5))
    IN  {y, Reverse(y), AllHalfHour(y), Repeated(y), HalfHour(y),
         SubSeq(y, 1, NumRows - 1), y \o <<y[1]>>,
         l, Reverse(l), Repeated(l), HalfHour(l), SubSeq(l, 1, LeapRows - 1),
         Tail(l) \o <<l[2]>>}

\* the cells: a column is missing, a timestamp does not parse, a cell is
\* empty or is a text
BaseDefects ==
    LET y == FullYear(R(5), R(5))
    IN  {BaseFile(AllColumns \ {c}, y) : c \in AllColumns}
        \cup {BaseFile(AllColumns, [y EXCEPT ![1].DateTime = NotADate])}
        \cup {BaseFile(AllColumns, [y EXCEPT ![1][c] = v]) :
                 c \in Required, v \in {NaN, TextCell}}

\* the level of GHI: below the peak, at it, far above it, zero, negative, infinite
GhiLevels == {R(5), R(450), R(PeakGhi), R(90000), R(0), R(-5), PosInf}
\* a level so near the peak that the scale differs from 1 by less than 1e-6
NearPeak == RNorm(PeakGhi * 1200 + 1, 1200)

IrradScales == {NoData, Pinned(R(1)), Pinned(R(2)), Pinned(R(-1)), Pinned(R(1000)),
                Pinned(RNorm(2 * EpsInv + 1, 2 * EpsInv))}

BaseInputs ==
    {[op |-> "read_era5_base", file |-> BaseFile(AllColumns, rows), IRRAD_SCALE |-> NoData] :
        rows \in BaseShapes}
    \cup {[op |-> "read_era5_base", file |-> f, IRRAD_SCALE |-> NoData] : f \in BaseDefects}
    \cup {[op |-> "read_era5_base", file |-> BaseFile(AllColumns, FullYear(jan, rest)),
           IRRAD_SCALE |-> sc] :
             jan \in GhiLevels, rest \in {R(450), R(PeakGhi), R(0)}, sc \in IrradScales}
    \cup {[op |-> "read_era5_base", file |-> BaseFile(AllColumns, FullYear(NearPeak, NearPeak)),
           IRRAD_SCALE |-> sc] : sc \in IrradScales}
    \cup {[op |-> "read_era5_base", file |-> BaseFile(AllColumns, FullLeapYear(jan, R(450))),
           IRRAD_SCALE |-> NoData] : jan \in GhiLevels}
    \cup {[op |-> "_guess_irr_scale", file |-> BaseFile(AllColumns, FullYear(jan, rest)),
           IRRAD_SCALE |-> NoData] :
             jan \in GhiLevels \cup {NearPeak}, rest \in {R(5), R(450), R(90000), NearPeak}}

InitBase ==
    /\ Idle
    /\ hist = Sources(Monthly(10, 10), Monthly(20, 20), Monthly(10, 10), NoData)
    /\ planilha = NoData
    /\ arg \in BaseInputs

\* base = read_era5_base(CSV_ERA5_BASE)
ApplyBase ==
    /\ pc = "call"
    /\ arg.op = "read_era5_base"
    /\ ret' = read_era5_base(arg.file, arg.IRRAD_SCALE)
    /\ pc' = "returned"
    /\ UNCHANGED <<base, hist, nex, si, yi, call, csvs, results, logs, table,
                   loads, planilha, consolidated, arg>>

\* scale = _guess_irr_scale(df), on a table that passed the NaN check
ApplyScale ==
    /\ pc = "call"
    /\ arg.op = "_guess_irr_scale"
    /\ ret' = Ok(guess_irr_scale(arg.file.rows))
    /\ pc' = "returned"
    /\ UNCHANGED <<base, hist, nex, si, yi, call, csvs, results, logs, table,
                   loads, planilha, consolidated, arg>>

NextBase == ApplyBase \/ ApplyScale

SpecBase == InitBase /\ [][NextBase]_vars

----------------------------------------------------------------------------
(* morph_one_year on the reference tables read_era5_base returns, for       *)
(* target years before and after the cutoff, one of them a leap year.       *)

RestampYears == {CutoffYear - 1, CutoffYear, CutoffYear + 1}

\* what read_era5_base returns for the reference files it accepts, with
\* IRRAD_SCALE pinned to 1
AcceptedBases ==
    {read_era5_base(BaseFile(AllColumns, rows), Pinned(R(1))).val :
        rows \in {r \in BaseShapes : read_era5_base(BaseFile(AllColumns, r), Pinned(R(1))).ok}}

InitRestamp ==
    /\ base \in AcceptedBases
    /\ hist = Sources(Monthly(10, 10), Monthly(20, 20), Monthly(10, 10), Monthly(70, 70))
    /\ nex \in {Sources(a, b, Monthly(10, 10), Monthly(70, 70)) : a \in MultFut, b \in TasFut}
    /\ si = 1
    /\ yi = 1
    /\ pc = "call"
    /\ call = NoData
    /\ csvs = << >>
    /\ results = << >>
    /\ logs = << >>
    /\ table = NoTable
    /\ loads = [v \in VarSet |-> 0]
    /\ planilha = NoData
    /\ consolidated = NoConsolidated
    /\ arg \in [op : {"morph_one_year"},
                ssp : {SCENARIOS[i] : i \in 1..Len(SCENARIOS)},
                year : RestampYears]
    /\ ret = NoData

\* out_csv = morph_one_year(ssp, year)
ApplyRestamp ==
    /\ pc = "call"
    /\ arg.op = "morph_one_year"
    /\ LET c == morph_one_year(arg.ssp, arg.year)
       IN  /\ call' = c
           /\ csvs' = IF c.raised THEN csvs ELSE WriteCsv(c)
           /\ ret' = IF c.raised THEN Raise(c.err) ELSE Ok(c.out_path)
    /\ pc' = "returned"
    /\ loads' = LoadsAfterCall
    /\ UNCHANGED <<base, hist, nex, si, yi, results, logs, table, planilha,
                   consolidated, arg>>

NextRestamp == ApplyRestamp

SpecRestamp == InitRestamp /\ [][NextRestamp]_vars

----------------------------------------------------------------------------
(* The monthly download: process_year(client, year). The disk holds, for    *)
(* each month of the year, the files era5land_<year>_<month>*.nc of         *)
(* OUT_DIR. The files are not held open by another process: os.remove and   *)
(* os.replace succeed. The service may fail any request; the run is         *)
(* followed for up to MaxFailures failed requests.                          *)

RETRIES_PER_MONTH == 3
MaxFailures == 3

\* era5land_<year>_<month>.nc, era5land_<year>_<month>_<uuid>.nc and
\* era5land_<year>_<month>_<uuid>_unz.nc
FinalNc == "era5land_Y_M.nc"
TmpNc == "era5land_Y_M_uuid.nc"
UnzNc == "era5land_Y_M_uuid_unz.nc"

\* a clean-up that removes nothing
cleanup_nothing(files) == files

\* _cleanup_previous_same_month(year, month): every file the glob
\* era5land_<year>_<month>*.nc matches is removed
cleanup_previous_same_month(files) == {}

\* what a retrieve_month that raises leaves of its own: nothing or a partial
\* download when client.retrieve raised, the download and a partial copy when
\* the unpacking raised
Leftovers == {{}, {TmpNc}, {TmpNc, UnzNc}}

\* the files of the month after retrieve_month returned: the download, unpacked
\* if need be, replaces era5land_<year>_<month>.nc
retrieve_month(files) == (cleanup_previous_same_month(files) \ {FinalNc}) \cup {FinalNc}

\* the files of the month after retrieve_month raised
retrieve_month_raised(files, left) == cleanup_previous_same_month(files) \cup left

\* OUT_DIR before the run: empty, a previous complete run, a previous run that
\* was interrupted in the third month
DisksBefore ==
    {[m \in Months |-> {}], [m \in Months |-> {FinalNc}],
     [m \in Months |-> IF m < 3 THEN {FinalNc} ELSE IF m = 3 THEN {TmpNc} ELSE {}]}

InitDownload ==
    /\ Idle
    /\ hist = Sources(Monthly(10, 10), Monthly(20, 20), Monthly(10, 10), NoData)
    /\ planilha = NoData
    /\ arg \in [op : {"process_year"}, before : DisksBefore]

DlUnchanged ==
    UNCHANGED <<base, hist, nex, si, yi, call, csvs, results, logs, table,
                loads, planilha, consolidated, arg>>

\* process_year(client, year) is called
DlStart ==
    /\ pc = "call"
    /\ arg.op = "process_year"
    /\ ret' = [m |-> 1, attempt |-> 1, disk |-> arg.before, failed |-> {},
               tries |-> [k \in Months |-> 0], failures |-> 0]
    /\ pc' = "months"
    /\ DlUnchanged

\* nc = retrieve_month(client, year, m) returns: ok = True, break
RetrieveOk ==
    /\ pc = "months"
    /\ ret.m <= NumMonths
    /\ ret' = [ret EXCEPT !.disk[ret.m] = retrieve_month(@),
                          !.tries[ret.m] = @ + 1,
                          !.m = @ + 1,
                          !.attempt = 1]
    /\ pc' = "months"
    /\ DlUnchanged

\* retrieve_month raises: the next attempt, or after the last one the month is
\* reported as failed and the loop goes on to the next month
RetrieveFails ==
    /\ pc = "months"
    /\ ret.m <= NumMonths
    /\ ret.failures < MaxFailures
    /\ \E left \in Leftovers :
          ret' = [ret EXCEPT !.disk[ret.m] = retrieve_month_raised(@, left),
                             !.tries[ret.m] = @ + 1,
                             !.failures = @ + 1,
                             !.failed = IF ret.attempt = RETRIES_PER_MONTH
                                        THEN @ \cup {ret.m} ELSE @,
                             !.m = IF ret.attempt = RETRIES_PER_MONTH THEN @ + 1 ELSE @,
                             !.attempt = IF ret.attempt = RETRIES_PER_MONTH THEN 1 ELSE @ + 1]
    /\ pc' = "months"
    /\ DlUnchanged

\* the loop over MONTHS is over: process_year returns
DlReturn ==
    /\ pc = "months"
    /\ ret.m > NumMonths
    /\ pc' = "returned"
    /\ UNCHANGED ret
    /\ DlUnchanged

NextDownload == DlStart \/ RetrieveOk \/ RetrieveFails \/ DlReturn

SpecDownload == InitDownload /\ [][NextDownload]_vars

----------------------------------------------------------------------------
(* Properties of one call of morph_one_year (checked under SpecMorph).     *)

\* the call returned and wrote its CSV
Returned == pc = "returned" /\ ~call.raised

\* the rows of the CSV the call wrote
Out == csvs[call.out_path]

Rows == 1..Len(base)

\* the direct fraction of a reference row: DNI / (GHI + eps) clamped to [0, 1]
RefFrac(r) == Clip(RDiv(r.DNI, RAdd(r.GHI, Eps)), R(0), R(1))

FiniteFactors ==
    \A m \in Months : IsFinite(call.k_rsds[m]) /\ IsFinite(call.k_wspd[m])

IdentityDeltas ==
    \A m \in Months : /\ call.k_rsds[m] = R(1)
                      /\ call.d_tas[m] = R(0)
                      /\ call.k_wspd[m] = R(1)
                      /\ call.d_hurs[m] = R(0)

\* a reference row with 0 <= DNI <= GHI
DirectWithinGlobal(r) == RLe(R(0), r.DNI) /\ RLe(r.DNI, r.GHI)

PositiveRadiationFactors ==
    \A m \in Months : IsFinite(call.k_rsds[m]) /\ RLt(R(0), call.k_rsds[m])

\* C1: for every hour and every monthly radiation factor, the output DNI is the new
\* GHI times the direct fraction of the reference row, DNI_ref / (GHI_ref + eps)
\* clamped to [0, 1], and the output DHI is the new GHI times one minus that
\* fraction (stated for positive finite factors and rows with 0 <= DNI <= GHI, as
\* in the example GHI 5, DNI 3, DHI 2 with the January factor 1.1).
C1_FractionCarriedFromReference ==
    (Returned /\ FiniteFactors /\ PositiveRadiationFactors) =>
        \A i \in Rows :
            DirectWithinGlobal(base[i]) =>
                /\ REq(Out[i].DNI, RMul(Out[i].GHI, RefFrac(base[i])))
                /\ REq(Out[i].DHI, RMul(Out[i].GHI, RSub(R(1), RefFrac(base[i]))))

\* C2 as stated: with all factors 1 and all offsets 0 every row of the output has the
\* six values of the reference row, and the same timestamp when the target year is
\* the reference year.
C2_IdentityRoundTrip ==
    (Returned /\ IdentityDeltas) =>
        \A i \in Rows :
            /\ \A c \in Required : REq(Out[i][c], base[i][c])
            /\ call.year = RefYear => Out[i].DateTime = base[i].DateTime

\* C2 as amended: with all factors 1 and all offsets 0, GHI, WindSpeed and RelHum are
\* the reference values clamped to their output ranges, TempC is the reference value
\* and the timestamp keeps month, day and hour under the target year; DNI and DHI
\* are recomputed: DNI + DHI = GHI, 0 <= DNI <= GHI, and DNI is strictly below a
\* positive reference DNI, and 0 for a reference DNI that is not positive.
C2_IdentityReproducesClampedReference ==
    (Returned /\ IdentityDeltas) =>
        \A i \in Rows :
            /\ REq(Out[i].GHI, ClipLower(base[i].GHI, R(0)))
            /\ REq(Out[i].TempC, base[i].TempC)
            /\ REq(Out[i].WindSpeed, ClipLower(base[i].WindSpeed, R(0)))
            /\ REq(Out[i].RelHum, Clip(base[i].RelHum, R(0), R(RelHumMax)))
            /\ Out[i].DateTime = [base[i].DateTime EXCEPT !.year = call.year]
            /\ REq(RAdd(Out[i].DNI, Out[i].DHI), Out[i].GHI)
            /\ RLe(R(0), Out[i].DNI) /\ RLe(Out[i].DNI, Out[i].GHI)
            /\ IF RLt(R(0), base[i].DNI) THEN RLt(Out[i].DNI, base[i].DNI)
                                         ELSE REq(Out[i].DNI, R(0))

\* an identity call on a reference row whose DNI exceeds its GHI, target year = reference year
C2_Witness ==
    /\ Returned /\ IdentityDeltas /\ call.year = RefYear
    /\ \E i \in Rows : RLt(base[i].GHI, base[i].DNI) /\ RLt(R(0), base[i].GHI)

ZeroClimatology ==
    \E v \in {"rsds", "sfcWind"} : \E m \in Months : hist[v].v[m] = R(0)

\* C3: when the climatology of rsds or sfcWind is 0 for some month the call fails
\* and writes no morphed file.
C3_DegenerateClimatologyFails ==
    (pc = "returned" /\ ZeroClimatology) => (call.raised /\ DOMAIN csvs = {})

\* C4: when the humidity projection is absent, every output RelHum is the reference
\* RelHum clamped to [0, 100], whether or not a humidity climatology was loaded
\* (stated for calls whose radiation and wind factors are finite).
C4_AbsentProjectionZeroDelta ==
    (Returned /\ FiniteFactors /\ nex["hurs"] = NoData) =>
        \A i \in Rows : REq(Out[i].RelHum, Clip(base[i].RelHum, R(0), R(RelHumMax)))

RequiredSourcesPresent ==
    \A v \in {"rsds", "tas", "sfcWind"} : hist[v] # NoData /\ nex[v] # NoData

\* C5: with radiation, temperature and wind data available (and no zero climatology)
\* the call completes and writes a morphed profile for each of the four combinations
\* of humidity projection and humidity climatology present or absent.
C5_MissingHumidityNeverFails ==
    (pc = "returned" /\ RequiredSourcesPresent /\ ~ZeroClimatology) =>
        (~call.raised /\ call.out_path \in DOMAIN csvs)

\* C6: in every output row DNI + DHI = GHI, and DHI / GHI is in [0, 1] when GHI > 0.
C6_ComponentsSumToGlobal ==
    Returned =>
        \A i \in Rows :
            /\ REq(RAdd(Out[i].DNI, Out[i].DHI), Out[i].GHI)
            /\ RLt(R(0), Out[i].GHI) =>
                  /\ RLe(R(0), RDiv(Out[i].DHI, Out[i].GHI))
                  /\ RLe(RDiv(Out[i].DHI, Out[i].GHI), R(1))

\* C6 holds of every call whose radiation and wind factors are finite
C6_FiniteFactors == (Returned /\ FiniteFactors) => C6_ComponentsSumToGlobal

\* C7: in every output row GHI >= 0, WindSpeed >= 0 and 0 <= RelHum <= 100, and
\* TempC is the reference TempC plus the month's offset.
C7_OutputRanges ==
    Returned =>
        \A i \in Rows :
            /\ RLe(R(0), Out[i].GHI)
            /\ RLe(R(0), Out[i].WindSpeed)
            /\ RLe(R(0), Out[i].RelHum) /\ RLe(Out[i].RelHum, R(RelHumMax))
            /\ REq(Out[i].TempC, RAdd(base[i].TempC, call.d_tas[base[i].month]))

\* C7 holds of every call whose radiation and wind factors are finite
C7_FiniteFactors == (Returned /\ FiniteFactors) => C7_OutputRanges

----------------------------------------------------------------------------
(* Properties of a run of main().                                          *)

\* the label the cutoff rule gives target (scenario s, year y)
ExpectedScenario(s, y) == IF y < CutoffYear THEN "historical" ELSE s

\* the targets <<scenario index, year index>> in the order of the two loops
AllTargets ==
    [k \in 1..(Len(SCENARIOS) * Len(YEARS)) |->
        <<((k - 1) \div Len(YEARS)) + 1, ((k - 1) % Len(YEARS)) + 1>>]

\* a target that repeats a year before the cutoff under a later scenario
Duplicate(t) == YEARS[t[2]] < CutoffYear /\ t[1] > 1

\* the targets a run visits, and those it has left behind at the current position
Visited == SelectSeq(AllTargets, LAMBDA t : ~Duplicate(t))
Position == (si - 1) * Len(YEARS) + yi
VisitedBefore == SelectSeq(SubSeq(AllTargets, 1, Position - 1), LAMBDA t : ~Duplicate(t))

KeyOf(t) == <<ExpectedScenario(SCENARIOS[t[1]], YEARS[t[2]]), YEARS[t[2]]>>

\* the keys <<ssp, ano>> of a sequence of entries or rows
Keys(rows) == [i \in 1..Len(rows) |-> <<rows[i].ssp, rows[i].ano>>]
KeySet(rows) == {Keys(rows)[i] : i \in 1..Len(rows)}

\* C8: for every target (s, y) the scenario of the projection lookup, the output
\* subdirectory and the file-name label of the morphed CSV, the 'ssp' of the result
\* entry, the label in the log file name and the scenario of the consolidated row
\* are one value: "historical" when y < 2015 and s otherwise.
C8_CutoffRuleConsistency ==
    /\ \A s \in 1..Len(SCENARIOS) : \A y \in 1..Len(YEARS) :
          LET e == ExpectedScenario(SCENARIOS[s], YEARS[y])
          IN  /\ SspName(SCENARIOS[s], YEARS[y]) = e
              /\ OutSubdir(SCENARIOS[s], YEARS[y]) = e
              /\ Label(SCENARIOS[s], YEARS[y]) = e
    /\ call # NoData =>
          LET e == ExpectedScenario(call.ssp, call.year)
          IN  /\ call.ssp_name # "" => call.ssp_name = e
              /\ ~call.raised =>
                    /\ call.out_path.dir = e /\ call.out_path.label = e
                    /\ call.out_path.year = call.year
                    /\ call.out_path \in DOMAIN csvs
    /\ \A i \in 1..Len(results) :
          /\ i <= Len(VisitedBefore)
          /\ <<results[i].ssp, results[i].ano>> = KeyOf(VisitedBefore[i])
          /\ LogName(results[i].ssp, results[i].ano) \in DOMAIN logs
          /\ results[i].erro = NoData =>
                /\ results[i].arquivo \in DOMAIN csvs
                /\ results[i].arquivo.dir = results[i].ssp
                /\ results[i].arquivo.label = results[i].ssp
                /\ results[i].arquivo.year = results[i].ano
    /\ \A n \in DOMAIN logs : <<n.label, n.year>> \in KeySet(results)
    /\ \A p \in DOMAIN csvs :
          /\ \E t \in {Visited[i] : i \in 1..Len(Visited)} : <<p.dir, p.year>> = KeyOf(t)
          /\ p.label = p.dir
    /\ LET table_rows == ConsolidatedRows
       IN  /\ KeySet(results) \subseteq KeySet(table_rows)
           /\ {<<p.dir, p.year>> : p \in DOMAIN csvs} \subseteq KeySet(table_rows)
           /\ \A i \in 1..Len(table_rows) :
                 /\ \E t \in {Visited[j] : j \in 1..Len(Visited)} :
                       <<table_rows[i].ssp, table_rows[i].ano>> = KeyOf(t)
                 /\ table_rows[i].caminho_csv # NoData =>
                       table_rows[i].caminho_csv.dir = table_rows[i].ssp
                 /\ table_rows[i].log_arquivo # NoData =>
                       table_rows[i].log_arquivo.label = table_rows[i].ssp

\* a successful year before the cutoff, labelled "historical", and an entry of the
\* second scenario for a year from the cutoff on
C8_Witness ==
    \E i \in 1..Len(results) : \E j \in 1..Len(results) :
        /\ results[i].ano < CutoffYear /\ results[i].ssp = "historical"
        /\ results[i].erro = NoData
        /\ results[j].ano >= CutoffYear /\ results[j].ssp = SCENARIOS[2]

\* one entry and one log per target left behind, in the order of the loops
OneEntryAndLogPerVisit ==
    /\ pc \in {"loop", "validate", "sam", "done"}
    /\ Keys(results) = [i \in 1..Len(VisitedBefore) |-> KeyOf(VisitedBefore[i])]
    /\ {<<n.label, n.year>> : n \in DOMAIN logs} = KeySet(results)
    /\ Cardinality(DOMAIN logs) = Len(results)
    /\ \A i \in 1..Len(results) :
          logs[LogName(results[i].ssp, results[i].ano)].kind =
              (IF results[i].erro = NoData THEN "json" ELSE "text")

\* the results table, once written, covers every visited target
TableCoversVisited ==
    /\ table.written <=> pc = "done"
    /\ pc = "done" =>
          /\ LoopsDone
          /\ Keys(table.rows) = [i \in 1..Len(Visited) |-> KeyOf(Visited[i])]
          /\ \A i \in 1..Len(table.rows) : table.rows[i].erro = results[i].erro

\* every state of the run but the last has a next step: the call of
\* morph_one_year returns or raises, validation passes or raises, the engine
\* returns, a skipped target is passed over, and after the loops the table is written
NeverStuck ==
    /\ (pc = "loop" /\ ~LoopsDone /\ Skipped(si, yi)) => ENABLED Skip
    /\ (pc = "loop" /\ ~LoopsDone /\ ~Skipped(si, yi)) =>
          morph_one_year(Target.ssp, Target.year).raised \in BOOLEAN
    /\ pc = "validate" => ENABLED ValidateStep
    /\ pc = "sam" => ENABLED SamOk
    /\ (pc = "loop" /\ LoopsDone) => ENABLED WriteResults

\* how far the run has come: the position of the loops, then the step within the target
Progress ==
    4 * Position + (CASE pc = "loop" -> 0 [] pc = "validate" -> 1
                      [] pc = "sam" -> 2 [] OTHER -> 3)

\* C9: whatever fails in morph, validation or the engine, every target that is not
\* skipped gets exactly one entry and one log, the run goes on with the next target
\* (no state but the last is stuck and every step moves the run forward), and the
\* results table written in the end covers every visited target.
C9_FailureIsolation ==
    /\ [](OneEntryAndLogPerVisit /\ TableCoversVisited /\ NeverStuck)
    /\ [][Progress' > Progress]_vars

\* a finished run in which a target succeeded after another had failed
C9_Witness ==
    /\ pc = "done" /\ table.written
    /\ \E i \in 1..Len(results) : \E j \in 1..Len(results) :
          i < j /\ results[i].erro # NoData /\ results[j].erro = NoData

\* C10: at every point of a run no two entries of results share the key
\* (scenario label, year), every entry of a year before 2015 is labelled
\* "historical", and every step leaves the entries already appended in place.
C10_OneEntryPerKey ==
    /\ [](/\ \A i \in 1..Len(results) : \A j \in 1..Len(results) :
                Keys(results)[i] = Keys(results)[j] => i = j
          /\ \A i \in 1..Len(results) :
                results[i].ano < CutoffYear => results[i].ssp = "historical")
    /\ [][/\ Len(results') >= Len(results)
          /\ SubSeq(results', 1, Len(results)) = results]_vars

\* the keys <<ssp, ano>> that have a log file, and those that have a morphed CSV
LogKeys == {<<n.label, n.year>> : n \in DOMAIN logs}
CsvKeys == {<<p.dir, p.year>> : p \in DOMAIN csvs}

NoTwoRowsShareKey(rows) ==
    \A i, j \in 1..Len(rows) : Keys(rows)[i] = Keys(rows)[j] => i = j

\* C11: the consolidated table has exactly one row for every key (scenario, year)
\* that has a log file or a morphed CSV, and no two rows share a key; the row of
\* a key with a log has status OK or ERRO, the row of a key with a CSV and no log
\* has status SEM_LOG.
C11_OneRowPerKey ==
    consolidated.runs > 0 =>
        LET rows == consolidated.rows
        IN  /\ KeySet(rows) = LogKeys \cup CsvKeys
            /\ NoTwoRowsShareKey(rows)
            /\ \A i \in 1..Len(rows) :
                   IF Keys(rows)[i] \in LogKeys
                   THEN rows[i].log_status \in {"OK", "ERRO"}
                   ELSE rows[i].log_status = "SEM_LOG"

\* a table with a row of each status, one of them for a CSV that has a log too
C11_Witness ==
    /\ consolidated.runs > 0
    /\ \A st \in {"OK", "ERRO", "SEM_LOG"} :
           \E i \in 1..Len(consolidated.rows) : consolidated.rows[i].log_status = st
    /\ LogKeys \cap CsvKeys # {}

\* C13: a second run of the consolidation over the same logs and CSVs gives the
\* table of the first run: the same number of rows, the same keys, no key twice,
\* and nothing of the first run's output is added to it.
C13_ConsolidationIdempotent ==
    [][(consolidated.runs > 0 /\ consolidated'.runs = consolidated.runs + 1) =>
           /\ Len(consolidated'.rows) = Len(consolidated.rows)
           /\ KeySet(consolidated'.rows) = KeySet(consolidated.rows)
           /\ NoTwoRowsShareKey(consolidated'.rows)
           /\ consolidated'.rows = consolidated.rows]_vars

\* the script has run twice on a directory with several logs and CSVs
C13_Witness ==
    /\ consolidated.runs = 2
    /\ Len(consolidated.rows) >= 3
    /\ CsvKeys # {}

\* a text with a first and a last token that are not blank
Trimmed(t) == t # << >> /\ t = Strip(t)

\* C12: every failure that main() records as "ERRO: <message>" is a row of the
\* consolidated table with status ERRO and with the whole of <message> as its
\* message, whatever the text of the message (several lines, braces).
C12_FailureMessageVerbatim ==
    (consolidated.runs > 0 /\ Trimmed(arg.text)) =>
        \A i \in 1..Len(results) :
            results[i].erro # NoData =>
                \E j \in 1..Len(consolidated.rows) :
                    /\ Keys(consolidated.rows)[j] = Keys(results)[i]
                    /\ consolidated.rows[j].log_status = "ERRO"
                    /\ consolidated.rows[j].log_msg = results[i].erro

\* C19: within one run of the pipeline the climatology of each variable is
\* loaded at most once and reused for the later targets: the number of loads of
\* a variable does not grow with the number of targets.
C19_ClimatologyLoadedOnce == \A v \in VarSet : loads[v] <= 1

\* the first sheet with a date column and a column for SSR or SKT has the
\* column that stands for v
HasProxy(p, v) ==
    LET usable == {i \in 1..Len(p.sheets) :
                      /\ "data" \in p.sheets[i].columns
                      /\ p.sheets[i].columns \cap {"ssr", "skt"} # {}}
        first == CHOOSE i \in usable : \A j \in usable : i <= j
    IN  /\ usable # {}
        /\ (IF v = "rsds" THEN "ssr" ELSE "skt") \in p.sheets[first].columns

\* C20: when the primary archive has no climatology for rsds or tas and the
\* spreadsheet exists with a date column and the proxy column of that variable
\* (SSR for rsds, SKT for tas), load_hist_clims returns the climatology of the
\* variable from the spreadsheet.
C20_SpreadsheetFallback ==
    (arg # NoData /\ arg.op = "load_hist_clims" /\ ret # NoData) =>
        \A v \in {"rsds", "tas"} :
            (/\ hist[v] = NoData
             /\ \A w \in {"rsds", "tas", "sfcWind"} \ {v} : hist[w] # NoData
             /\ planilha # NoData
             /\ HasProxy(planilha, v)) =>
                (ret.ok /\ v \in DOMAIN ret.val)

\* _as_monthly_series was applied to arg and ret is its result
MonthlyReturned == arg # NoData /\ arg.op = "_as_monthly_series" /\ ret # NoData

TwelveKeys == ret.ok /\ DOMAIN ret.val = 1..12

Rejected ==
    \/ arg.x = NoData /\ ~arg.allow_none
    \/ arg.x # NoData /\ arg.x.kind = "Series" /\ Len(arg.x.v) # 12

ValidateReturned == arg # NoData /\ arg.op = "validate_sam_csv" /\ ret # NoData

\* the invariants of a file, in the order of the claim
HasDateTime(f) == "DateTime" \in f.columns
StampsParse(f) == \A i \in 1..Len(f.rows) : "year" \in DOMAIN f.rows[i].DateTime
HasColumns(f) == Required \subseteq f.columns
NoMissingValue(f) ==
    \A i \in 1..Len(f.rows) : \A c \in Required :
        LET cell == f.rows[i][c] IN Len(cell) = 2 /\ cell # NaN
RowCountOk(f) ==
    LET leap == {i \in 1..Len(f.rows) :
                    f.rows[i].DateTime.month = 2 /\ f.rows[i].DateTime.day = 29}
    IN  IF Len(f.rows) = LeapRows THEN Len(f.rows) - Cardinality(leap) = NumRows
        ELSE Len(f.rows) = NumRows

\* the first violated invariant, as the error names it
FirstViolated(f) ==
    IF ~HasDateTime(f) THEN "CSV sem DateTime."
    ELSE IF ~StampsParse(f) THEN "Falha ao converter DateTime"
    ELSE IF ~HasColumns(f) THEN "Falta"
    ELSE IF ~NoMissingValue(f) THEN "NaN apos morph."
    ELSE IF ~RowCountOk(f) THEN "linhas (esperado 8760)"
    ELSE "none"

\* C14: validate_sam_csv succeeds exactly when the file has a DateTime column
\* whose cells parse, the six required columns, a number in every cell of them,
\* and 8760 rows once the Feb-29 rows of an 8784-row file are removed; otherwise
\* its error names the first violated of these, in this order, and for a missing
\* column the first missing one in the listed order.
C14_ValidationOrder ==
    ValidateReturned =>
        LET f == arg.file
        IN  /\ ret.ok <=> FirstViolated(f) = "none"
            /\ ~ret.ok => ret.err[1] = FirstViolated(f)
            /\ (~ret.ok /\ ret.err[1] = "Falta") =>
                   /\ ret.err[2] \notin f.columns
                   /\ \A k \in 1..Len(Req) :
                          Req[k] = ret.err[2] => \A j \in 1..(k - 1) : Req[j] \in f.columns

\* a file of 8784 rows, its Feb-29 rows among them, was accepted
C14_Witness ==
    /\ ValidateReturned
    /\ ret.ok
    /\ Len(arg.file.rows) = LeapRows

\* the generator has started on the input arg
GenStarted == arg # NoData /\ arg.op = "generate" /\ ret # NoData

StrictlyIncreasing(rows) ==
    \A i \in 1..(Len(rows) - 1) : StampBefore(rows[i].DateTime, rows[i + 1].DateTime)

NoDuplicateHour(rows) ==
    \A i, j \in 1..Len(rows) : rows[i].DateTime = rows[j].DateTime => i = j

SamplesAt(y, h) ==
    SelectSeq(Concat(arg.by_year[y]),
              LAMBDA x : /\ x.t.year = h.year /\ x.t.month = h.month
                         /\ x.t.day = h.day /\ x.t.hour = h.hour
                         /\ x.v # NaN)

\* an hour of year y has no sample
Uncovered(y) ==
    \E i \in 1..Len(expected_hourly_index(y)) :
        SamplesAt(y, expected_hourly_index(y)[i]) = << >>

\* the loop over the years has dealt with year GenYears[k]
Processed(k) == k < ret.i \/ (pc = "aborted" /\ ret.year = GenYears[k])

\* C16: when an hour of the target year has no sample after flooring and
\* merging, the generator writes no CSV for that year and, if it opened a file
\* of the year, ends with an error for that year; every value of a written CSV
\* comes from samples of its own hour, none from interpolation or gap filling.
C16_GapFailsNoInterpolation ==
    GenStarted =>
        /\ \A k \in 1..Len(GenYears) :
               LET y == GenYears[k]
               IN  (Processed(k) /\ y \notin arg.existing /\ Uncovered(y)) =>
                       /\ y \notin DOMAIN ret.written
                       /\ DsList(y) # << >> =>
                              (pc = "aborted" /\ ret.year = y /\ ret.error # << >>)
        /\ \A y \in DOMAIN ret.written : \A i \in 1..Len(ret.written[y]) :
               /\ ret.written[y][i].WindSpeed # NaN
               /\ SamplesAt(y, ret.written[y][i].DateTime) # << >>

\* the first year was written, the second has a gap and ended the script
C16_Witness ==
    /\ GenStarted
    /\ pc = "aborted"
    /\ ret.year = GenYears[2]
    /\ DOMAIN ret.written = {GenYears[1]}
    /\ Uncovered(GenYears[2])

\* C17: the samples whose timestamps floor to one hour are merged into one row
\* whose value is the arithmetic mean of them, and the rows extracted for a
\* target year hold no hour of another year.
C17_MergeByMean ==
    (GenStarted /\ ret.year # 0) =>
        \A h \in DOMAIN ret.df :
            LET at == SamplesAt(ret.year, h)
                vals == [i \in 1..Len(at) |-> at[i].v]
            IN  /\ h.year = ret.year
                /\ at # << >> => RMul(ret.df[h], R(Len(vals))) = SumOf(vals)

\* three samples of one hour (2, 4 and 9) were merged into their mean, which is
\* none of them
C17_Witness ==
    /\ GenStarted
    /\ ret.year # 0
    /\ \E h \in DOMAIN ret.df : Len(SamplesAt(ret.year, h)) = 3 /\ ret.df[h] = R(5)

\* _load_nex_hist_monthly was applied to the archive arg.archive
HistReturned == arg # NoData /\ arg.op = "_load_nex_hist_monthly" /\ ret # NoData

\* the years of the window that have a file, and all the samples of those files
YearsFound == {y \in HistYearSet : arg.archive[y] # NoData}
PooledAt(m) ==
    {<<y, i>> \in YearsFound \X (1..(2 * NumMonths)) :
        /\ i <= Len(arg.archive[y].samples)
        /\ arg.archive[y].samples[i].month = m
        /\ arg.archive[y].samples[i].v # NaN}

RECURSIVE PooledSum(_)
PooledSum(S) ==
    IF S = {} THEN R(0)
    ELSE LET p == CHOOSE x \in S : TRUE
         IN  RAdd(arg.archive[p[1]].samples[p[2]].v, PooledSum(S \ {p}))

\* each month's value is the mean over the samples of all the files found
PooledMean ==
    \A m \in Months :
        PooledAt(m) # {} =>
            RMul(ret.val.v[m], R(Cardinality(PooledAt(m)))) = PooledSum(PooledAt(m))

\* C21 as stated: _load_nex_hist_monthly skips the years without a file, returns
\* the pooled monthly means of the files found, and fails exactly when no year
\* of the window has a file.
C21_FailsOnlyWithoutFiles ==
    HistReturned =>
        /\ ret.ok <=> YearsFound # {}
        /\ ret.ok => PooledMean

\* C21, amended: as above, and it fails as well when the files found hold no
\* sample for some month of the year.
C21_PooledMeanOfFoundYears ==
    HistReturned =>
        /\ YearsFound = {} => ~ret.ok
        /\ ret.ok <=> (YearsFound # {} /\ \A m \in Months :
                          \E y \in YearsFound : \E i \in 1..Len(arg.archive[y].samples) :
                              arg.archive[y].samples[i].month = m)
        /\ ret.ok => PooledMean

\* a year of the window without a file was skipped and a climatology returned
C21_Witness ==
    /\ HistReturned
    /\ ret.ok
    /\ \E y \in HistYearSet : arg.archive[y] = NoData


\* load_future_monthly was applied to the target (arg.ssp, arg.year)
FutureReturned == arg # NoData /\ arg.op = "load_future_monthly" /\ ret # NoData

\* the variables other than hurs for which no projection file matches
Unmatched == {v \in VarSet \ {"hurs"} : nex[v] = NoData}

\* C22: load_future_monthly fails when no projection file matches for rsds, tas
\* or sfcWind, with an error that names such a variable, the resolved scenario
\* ("historical" before 2015) and the year; otherwise it returns the values of
\* the three variables and, for hurs, its values or None when no file matches.
\* (That a failed target does not stop the others is part of C9.)
C22_ProjectionUnavailable ==
    FutureReturned =>
        /\ ret.ok <=> Unmatched = {}
        /\ ~ret.ok =>
               /\ ret.err[4] \in Unmatched
               /\ ret.err[2] = (IF arg.year < 2015 THEN "historical" ELSE arg.ssp)
               /\ ret.err[3] = ToString(arg.year)
        /\ ret.ok =>
               /\ DOMAIN ret.val = VarSet
               /\ \A v \in VarSet : ret.val[v] = nex[v]

\* no file for hurs: None is returned for it, with the other three variables
C22_Witness ==
    /\ FutureReturned
    /\ ret.ok
    /\ ret.val["hurs"] = NoData
    /\ \A v \in VarSet \ {"hurs"} : ret.val[v] # NoData


\* the reference profile of a run of the pipeline, as read_era5_base returns it
ReferenceOfRun == Profile(StdRecord, StdRecord)

\* the file just written holds the reference rows transformed by the factors of
\* the current target, which are the ratios and differences of its projection
\* and the climatologies
MorphedFromReference ==
    pc = "validate" =>
        /\ call.k_rsds = [m \in Months |-> RDiv(nex["rsds"].v[m], hist["rsds"].v[m])]
        /\ call.d_tas = [m \in Months |-> RSub(nex["tas"].v[m], hist["tas"].v[m])]
        /\ call.k_wspd = [m \in Months |-> RDiv(nex["sfcWind"].v[m], hist["sfcWind"].v[m])]
        /\ csvs[call.out_path] =
               [i \in 1..NumRows |->
                   MorphRow(ReferenceOfRun[i], call.k_rsds, call.d_tas, call.k_wspd,
                            call.d_hurs, Target.year)]

\* C23: no call of morph_one_year changes the reference profile, and the
\* profile written for a target is the transform of the reference rows by that
\* target's factors, whatever targets were processed before it.
C23_ReferenceNeverChanged == [](MorphedFromReference) /\ [][base' = base]_vars

\* a target is morphed after another one's profile was written
C23_Witness ==
    /\ pc = "validate"
    /\ \E k \in DOMAIN csvs : k # call.out_path
    /\ \E m \in Months : call.k_rsds[m] # R(1)


\* read_era5_base was applied to the file arg.file
BaseReturned == arg # NoData /\ arg.op = "read_era5_base" /\ ret # NoData

\* the hours of the file, and the hours of the year other than the 29th of
\* February
HoursOf(f) ==
    {Floor(f.rows[i].DateTime) : i \in {j \in 1..Len(f.rows) : ~IsNaT(f.rows[j].DateTime)}}
HoursOfYear == {Floor(BaseStamp(i)) : i \in 1..NumRows}

\* a file in which an hour appears twice or an hour of the year does not appear
RepeatedOrMissingHour(f) ==
    \/ \E i, j \in 1..Len(f.rows) :
          /\ i # j /\ ~IsNaT(f.rows[i].DateTime) /\ ~IsNaT(f.rows[j].DateTime)
          /\ Floor(f.rows[i].DateTime) = Floor(f.rows[j].DateTime)
    \/ ~(HoursOfYear \subseteq HoursOf(f))

\* C24: every profile read_era5_base returns has exactly 8760 records, strictly
\* increasing hourly timestamps, no duplicate hour and no gap, and no missing
\* value in the six fields; a file of 8760 or 8784 rows with a duplicated or a
\* missing hour is rejected.
C24_ValidReferenceProfile ==
    BaseReturned =>
        /\ ret.ok =>
               /\ Len(ret.val) = NumRows
               /\ StrictlyIncreasing(ret.val)
               /\ NoDuplicateHour(ret.val)
               /\ {ret.val[i].DateTime : i \in 1..Len(ret.val)} = HoursOfYear
               /\ \A i \in 1..Len(ret.val) : \A c \in Required : ~IsNaN(ret.val[i][c])
        /\ (Len(arg.file.rows) \in {NumRows, LeapRows} /\ RepeatedOrMissingHour(arg.file))
               => ~ret.ok


\* _guess_irr_scale was applied to the table arg.file
ScaleReturned == arg # NoData /\ arg.op = "_guess_irr_scale" /\ ret # NoData

\* 900 divided by the percentile and clamped to [0.1, 100], or 1 when the
\* percentile is not a positive finite number
ExpectedScale(p95) ==
    IF ~IsFinite(p95) \/ ~RLt(R(0), p95) THEN R(1)
    ELSE LET q == RDiv(R(900), p95)
         IN  IF RLt(q, RNorm(1, 10)) THEN RNorm(1, 10)
             ELSE IF RLt(R(100), q) THEN R(100) ELSE q

\* the scale read_era5_base uses: the pinned one, or else the detected one
ScaleUsed ==
    IF arg.IRRAD_SCALE = NoData THEN guess_irr_scale(arg.file.rows) ELSE arg.IRRAD_SCALE.v

\* every returned record is a record of the file with GHI, DNI and DHI
\* multiplied by k and the other fields and the (hourly) timestamp as they were
MultipliedBy(k) ==
    \A i \in 1..Len(ret.val) : \E j \in 1..Len(arg.file.rows) :
        LET a == arg.file.rows[j]
            b == ret.val[i]
        IN  /\ b.DateTime = Floor(a.DateTime)
            /\ b.GHI = RMul(a.GHI, k) /\ b.DNI = RMul(a.DNI, k) /\ b.DHI = RMul(a.DHI, k)
            /\ b.TempC = a.TempC /\ b.WindSpeed = a.WindSpeed /\ b.RelHum = a.RelHum

ScaleInRange ==
    ScaleReturned =>
        /\ RLe(RNorm(1, 10), ret.val) /\ RLe(ret.val, R(100))
        /\ ret.val = ExpectedScale(nanpercentile95([i \in 1..Len(arg.file.rows) |->
                                                      arg.file.rows[i].GHI]))

\* C27 as stated: the detected scale is 900 / p95 of GHI clamped to [0.1, 100],
\* or 1 when p95 is not positive or not finite; a pinned IRRAD_SCALE replaces
\* it; whenever the scale differs from 1, GHI, DNI and DHI of every record are
\* multiplied by it and the other fields and the timestamps are unchanged.
C27_ScaleApplied ==
    /\ ScaleInRange
    /\ (BaseReturned /\ ret.ok) => (ScaleUsed # R(1) => MultipliedBy(ScaleUsed))

\* C27, amended: as above, but the multiplication takes place when the scale
\* differs from 1 by more than 1e-6; a scale nearer to 1 leaves every record as
\* it was.
C27_ScaleAppliedBeyondTolerance ==
    /\ ScaleInRange
    /\ (BaseReturned /\ ret.ok) =>
           IF RLt(RNorm(1, 1000000), RAbs(RSub(ScaleUsed, R(1))))
           THEN MultipliedBy(ScaleUsed)
           ELSE MultipliedBy(R(1))

\* GHI of 450 at the 95th percentile: the detected scale is 2 and doubles the
\* irradiances
C27_Witness ==
    /\ BaseReturned
    /\ ret.ok
    /\ arg.IRRAD_SCALE = NoData
    /\ ScaleUsed = R(2)
    /\ \E i \in 1..Len(ret.val) : ret.val[i].DNI = R(6)


\* the profile at out_csv, which run_sam_from_csv is about to read
HandedToEngine == csvs[call.out_path]

\* C25: no morphed profile with an infinite or undefined value in one of the six
\* fields is handed to the yield engine: run_sam_from_csv is reached only with
\* a profile all of whose values are finite.
C25_OnlyFiniteProfilesReachEngine ==
    pc = "sam" =>
        \A i \in 1..Len(HandedToEngine) : \A c \in Required :
            IsFinite(HandedToEngine[i][c])

\* the step from the current state is a failure of morph_one_year, or of
\* validate_sam_csv
MorphFails ==
    /\ pc = "loop" /\ ~LoopsDone /\ ~Skipped(si, yi)
    /\ morph_one_year(Target.ssp, Target.year).raised
ValidationFails == pc = "validate" /\ ~validate_sam_csv(csvs[call.out_path]).ok

\* C26: run_sam_from_csv is reached only from a validation that passed, of the
\* file a completed morph wrote; when the morph or the validation fails the
\* engine is not invoked and a failure entry is appended for the target; the
\* validation leaves the morphed file as it is.
C26_EngineOnlyAfterValidation ==
    [][/\ pc' = "sam" =>
              /\ pc = "validate"
              /\ ~call.raised
              /\ call.out_path \in DOMAIN csvs
              /\ validate_sam_csv(csvs[call.out_path]).ok
       /\ (MorphFails \/ ValidationFails) =>
              /\ pc' = "loop"
              /\ Len(results') = Len(results) + 1
              /\ results'[Len(results')].erro # NoData
              /\ results'[Len(results')].ano = Target.year
       /\ pc = "validate" => csvs' = csvs]_vars

\* the engine is about to run on a validated file, after an earlier target
\* failed and was recorded without the engine
C26_Witness ==
    /\ pc = "sam"
    /\ validate_sam_csv(csvs[call.out_path]).ok
    /\ results # << >>
    /\ results[Len(results)].erro # NoData

\* morph_one_year returned the path of the file it wrote for (arg.ssp, arg.year)
RestampReturned == arg # NoData /\ arg.op = "morph_one_year" /\ ret # NoData /\ ret.ok

\* C28: the timestamps of a morphed profile keep the month, day and hour of
\* every reference record and carry the target year; the profile has exactly
\* 8760 rows, no record of the 29th of February and no duplicate timestamp,
\* whether the target year is a leap year or not; the file is
\* <label>/SAM_<model>_<label>_<year>_morph.csv and its columns are DateTime,
\* GHI, DNI, DHI, TempC, WindSpeed and RelHum.
C28_RestampedCalendar ==
    RestampReturned =>
        LET rows == csvs[ret.val]
            label == IF arg.year < 2015 THEN "historical" ELSE arg.ssp
        IN  /\ Len(rows) = NumRows
            /\ \A i \in 1..Len(rows) :
                   /\ rows[i].DateTime = [year |-> arg.year, month |-> base[i].DateTime.month,
                                          day |-> base[i].DateTime.day,
                                          hour |-> base[i].DateTime.hour]
                   /\ ~(rows[i].DateTime.month = 2 /\ rows[i].DateTime.day = 29)
                   /\ DOMAIN rows[i] = {"DateTime"} \cup Required
            /\ NoDuplicateHour(rows)
            /\ ret.val = [dir |-> label, model |-> MODEL, label |-> label, year |-> arg.year]


\* process_year was called on the disk arg.before
DownloadStarted == arg # NoData /\ arg.op = "process_year" /\ ret # NoData

\* the months are taken in order, each tried at most three times; a month
\* that is over either succeeded, and then holds the one file
\* era5land_<year>_<month>.nc, or was reported as failed after three attempts
MonthsInOrder ==
    DownloadStarted =>
        /\ ret.attempt \in 1..3
        /\ pc = "returned" => ret.m = NumMonths + 1
        /\ \A k \in Months :
               /\ ret.tries[k] <= 3
               /\ k > ret.m => (ret.tries[k] = 0 /\ ret.disk[k] = arg.before[k])
               /\ k = ret.m => ret.tries[k] = ret.attempt - 1
               /\ k < ret.m =>
                      \/ k \in ret.failed /\ ret.tries[k] = 3
                      \/ k \notin ret.failed /\ ret.tries[k] >= 1
                                             /\ ret.disk[k] = {"era5land_Y_M.nc"}
        /\ \A k \in ret.failed : k < ret.m

\* an attempt that succeeds ends the attempts of its month, and one that fails
\* keeps the loop going: to the next attempt, or after the third to the next
\* month
AttemptStep ==
    (DownloadStarted /\ pc = "months" /\ ret.m <= NumMonths) =>
        /\ pc' = "months"
        /\ ret'.tries[ret.m] = ret.tries[ret.m] + 1
        /\ ret'.failed = ret.failed =>
               \/ ret'.m = ret.m + 1 /\ ret'.disk[ret.m] = {"era5land_Y_M.nc"}
               \/ ret'.m = ret.m /\ ret'.attempt = ret.attempt + 1
        /\ ret'.failed # ret.failed =>
               /\ ret.attempt = 3
               /\ ret'.failed = ret.failed \cup {ret.m}
               /\ ret'.m = ret.m + 1

====
